---------------------------- MODULE Spec2Model ----------------------------
(***************************************************************************)
(* The objective-to-topic matcher of MCQMCP (topic-matcher.ts and          *)
(* topic-aliases.ts of packages/server): the normalizer, the alias lookup, *)
(* the edit-distance and keyword scores, the four-stage cascade matchTopic *)
(* and the decision policy shouldUseItemBank.                              *)
(*                                                                         *)
(* JavaScript strings are TLA+ strings; the character at position i of s   *)
(* is SubSeq(s, i, i).  JavaScript numbers that the matcher produces are   *)
(* rationals <<numerator, denominator>> in lowest terms with a positive    *)
(* denominator.  A JavaScript value that may be a string, null, undefined  *)
(* or an object is a record [type, value].                                 *)
(***************************************************************************)
EXTENDS Integers, Sequences, FiniteSets, TLC

VARIABLES
    pc,               \* "ready" | "matched" | "decided" | "sim-ready" | "sim-done"
                      \* | "alias-ready" | "alias-done" | "serving"
                      \* | "keywords-ready" | "keywords-done"
                      \* | "keys-ready" | "keys-done"
                      \* | "recording" | "listening"
    objective,        \* matchTopic's first argument
    availableTopics,  \* matchTopic's second argument
    result,           \* what the matchTopic call produced (a MatchResult or a throw)
    useItemBank,      \* what shouldUseItemBank(result) returned
    simA, simB,       \* calculateSimilarity's arguments
    similarity,       \* what calculateSimilarity(simA, simB) returned
    objectiveB,       \* the objective of a second lookupAlias call
    aliasA, aliasB,   \* what lookupAlias(objective) and lookupAlias(objectiveB) returned
    store,            \* the tables of the database: store.mcp as the tools of the MCP
                      \* interface leave them, store.rest as the same calls made
                      \* through the REST interface leave them
    requests,         \* the requests the last call sent to the database (mcp, rest)
    reply,            \* the reply to the last call (mcp, rest)
    call,             \* the last tool call: its name and arguments
    generated,        \* the (normalized objective, difficulty) pairs mcq_generate has
                      \* generated an item for
    generatorCalls,   \* the number of generateItem calls of the last call (mcp, rest)
    generationEnabled,\* isGenerationEnabled(): ANTHROPIC_API_KEY is set
    ncalls,           \* the number of tool calls so far
    kwTopic, kwList,  \* topicContainsKeywords's arguments
    keywordScore,     \* what topicContainsKeywords(kwTopic, kwList) returned
    inflight,         \* the mcq_record calls under way: where each one stands
                      \* between its awaits, and its local variables
    transport,        \* main's variable transport: 0 for null, else the number of
                      \* the /sse connection its SSEServerTransport was created for
    connections,      \* the clients that opened the /sse connections, in order
    response          \* the last HTTP request and what answered it

aliasVars == <<objectiveB, aliasA, aliasB>>

serverVars == <<store, requests, reply, call, generated, generatorCalls,
                generationEnabled, ncalls>>

keywordVars == <<kwTopic, kwList, keywordScore>>

recordVars == <<inflight>>

httpVars == <<transport, connections, response>>

vars == <<pc, objective, availableTopics, result, useItemBank, simA, simB, similarity,
          aliasVars, serverVars, keywordVars, recordVars, httpVars>>

-----------------------------------------------------------------------------
(* Characters and strings *)

CharAt(s, i) == SubSeq(s, i, i)

UpperLetters == "ABCDEFGHIJKLMNOPQRSTUVWXYZ"
LowerLetters == "abcdefghijklmnopqrstuvwxyz"
DigitChars == "0123456789"

CharsOf(s) == {CharAt(s, i) : i \in 1..Len(s)}

\* the position of character c in s, 0 when it is not there
PosIn(c, s) ==
    IF \E i \in 1..Len(s) : CharAt(s, i) = c
    THEN CHOOSE i \in 1..Len(s) : CharAt(s, i) = c /\ \A k \in 1..(i - 1) : CharAt(s, k) # c
    ELSE 0

\* \w of a JavaScript regular expression: [A-Za-z0-9_]
WordChars == CharsOf(UpperLetters) \cup CharsOf(LowerLetters) \cup CharsOf(DigitChars) \cup {"_"}
IsWordChar(c) == c \in WordChars

\* \s of a JavaScript regular expression (the ASCII part)
SpaceChars == {" ", "\t", "\n", "\r"}
IsSpaceChar(c) == c \in SpaceChars

\* The strings of this module are ASCII.  Two UTF-16 code units outside
\* ASCII are written with one ASCII character each: U+0130 (capital I with
\* dot above), the code unit whose lowercase form is two code units, and
\* U+0307 (combining dot above).
DottedCapitalI == "@"
CombiningDot == "~"

\* the lowercase form of every uppercase letter
LowerOf == [c \in CharsOf(UpperLetters) |-> CharAt(LowerLetters, PosIn(c, UpperLetters))]

\* String.prototype.toLowerCase on one code unit: U+0130 becomes i, U+0307
LowerChar(c) ==
    IF c = DottedCapitalI THEN "i" \o CombiningDot
    ELSE IF c \in DOMAIN LowerOf THEN LowerOf[c] ELSE c

RECURSIVE toLowerCase(_)
toLowerCase(s) ==
    IF s = "" THEN "" ELSE LowerChar(CharAt(s, 1)) \o toLowerCase(Tail(s))

\* the uppercase form of every lowercase letter
UpperOf == [c \in CharsOf(LowerLetters) |-> CharAt(UpperLetters, PosIn(c, LowerLetters))]

UpperChar(c) == IF c \in DOMAIN UpperOf THEN UpperOf[c] ELSE c

RECURSIVE toUpperCase(_)
toUpperCase(s) ==
    IF s = "" THEN "" ELSE UpperChar(CharAt(s, 1)) \o toUpperCase(Tail(s))

RECURSIVE TrimStart(_)
TrimStart(s) ==
    IF s # "" /\ IsSpaceChar(CharAt(s, 1)) THEN TrimStart(Tail(s)) ELSE s

RECURSIVE TrimEnd(_)
TrimEnd(s) ==
    IF s # "" /\ IsSpaceChar(CharAt(s, Len(s))) THEN TrimEnd(SubSeq(s, 1, Len(s) - 1)) ELSE s

trim(s) == TrimEnd(TrimStart(s))

\* s.replace(/\s+/g, r): every maximal run of whitespace becomes r
RECURSIVE ReplaceSpaceRuns(_, _)
ReplaceSpaceRuns(s, r) ==
    IF s = "" THEN ""
    ELSE IF IsSpaceChar(CharAt(s, 1))
         THEN r \o ReplaceSpaceRuns(TrimStart(s), r)
         ELSE CharAt(s, 1) \o ReplaceSpaceRuns(Tail(s), r)

\* input.replace(/[^\w\s/-]/g, ''): keeps word characters, whitespace, "/" and "-"
RECURSIVE RemoveSpecialChars(_)
RemoveSpecialChars(s) ==
    IF s = "" THEN ""
    ELSE LET c == CharAt(s, 1) IN
         (IF IsWordChar(c) \/ IsSpaceChar(c) \/ c \in {"/", "-"} THEN c ELSE "")
            \o RemoveSpecialChars(Tail(s))

normalizeForAlias(input) ==
    ReplaceSpaceRuns(RemoveSpecialChars(trim(toLowerCase(input))), " ")

StartsWith(s, p) == Len(p) <= Len(s) /\ SubSeq(s, 1, Len(p)) = p

\* a.includes(b)
Includes(a, b) ==
    \E i \in 1..(Len(a) + 1) : i + Len(b) - 1 <= Len(a) /\ SubSeq(a, i, i + Len(b) - 1) = b

-----------------------------------------------------------------------------
(* JavaScript values *)

JSString(s) == [type |-> "string", value |-> s]
JSNull == [type |-> "null", value |-> ""]
JSUndefined == [type |-> "undefined", value |-> ""]
\* a function or an object: a value that is truthy and has no toLowerCase method
JSObject(name) == [type |-> "object", value |-> name]

\* ToBoolean
Truthy(v) == v.type \notin {"null", "undefined"} /\ ~(v.type = "string" /\ v.value = "")

-----------------------------------------------------------------------------
(* Rational numbers *)

Abs(n) == IF n < 0 THEN -n ELSE n

RECURSIVE GCD(_, _)
GCD(m, n) == IF n = 0 THEN m ELSE GCD(n, m % n)

\* n/d in lowest terms, d > 0
Rat(n, d) == LET g == GCD(Abs(n), d) IN <<n \div g, d \div g>>

RatLt(x, y) == x[1] * y[2] < y[1] * x[2]
RatGeq(x, y) == ~RatLt(x, y)
RatMul(x, y) == Rat(x[1] * y[1], x[2] * y[2])

Min3(x, y, z) == IF x <= y /\ x <= z THEN x ELSE IF y <= z THEN y ELSE z
Max2(x, y) == IF x >= y THEN x ELSE y
RatMax3(x, y, z) ==
    LET xy == IF RatLt(x, y) THEN y ELSE x IN IF RatLt(xy, z) THEN z ELSE xy

-----------------------------------------------------------------------------
(* topic-aliases.ts *)

TOPIC_ALIASES ==
       ("useeffect" :> "react-hooks")
    @@ ("use effect" :> "react-hooks")
    @@ ("usestate" :> "react-state")
    @@ ("use state" :> "react-state")
    @@ ("usecontext" :> "react-hooks")
    @@ ("usememo" :> "react-hooks")
    @@ ("usecallback" :> "react-hooks")
    @@ ("usereducer" :> "react-state")
    @@ ("useref" :> "react-hooks")
    @@ ("react hooks" :> "react-hooks")
    @@ ("hooks" :> "react-hooks")
    @@ ("react state" :> "react-state")
    @@ ("state management" :> "react-state")
    @@ ("react rendering" :> "react-rendering")
    @@ ("virtual dom" :> "react-rendering")
    @@ ("reconciliation" :> "react-rendering")
    @@ ("react patterns" :> "react-patterns")
    @@ ("higher order components" :> "react-patterns")
    @@ ("hoc" :> "react-patterns")
    @@ ("render props" :> "react-patterns")
    @@ ("compound components" :> "react-patterns")
    @@ ("closures" :> "js-closures")
    @@ ("closure" :> "js-closures")
    @@ ("lexical scope" :> "js-closures")
    @@ ("lexical scoping" :> "js-closures")
    @@ ("async/await" :> "js-async")
    @@ ("async await" :> "js-async")
    @@ ("promises" :> "js-async")
    @@ ("promise" :> "js-async")
    @@ ("asynchronous" :> "js-async")
    @@ ("callbacks" :> "js-async")
    @@ ("this keyword" :> "js-this")
    @@ ("this binding" :> "js-this")
    @@ ("call apply bind" :> "js-this")
    @@ ("arrow functions" :> "js-this")
    @@ ("prototypes" :> "js-prototypes")
    @@ ("prototype chain" :> "js-prototypes")
    @@ ("inheritance" :> "js-prototypes")
    @@ ("prototypal inheritance" :> "js-prototypes")
    @@ ("event loop" :> "js-async")
    @@ ("microtasks" :> "js-timers")
    @@ ("settimeout" :> "js-timers")
    @@ ("setinterval" :> "js-timers")
    @@ ("timers" :> "js-timers")
    @@ ("design patterns" :> "js-patterns")
    @@ ("module pattern" :> "js-patterns")
    @@ ("singleton" :> "js-patterns")
    @@ ("factory" :> "js-patterns")
    @@ ("javascript fundamentals" :> "js-fundamentals")
    @@ ("js basics" :> "js-fundamentals")
    @@ ("variables" :> "js-fundamentals")
    @@ ("hoisting" :> "js-fundamentals")
    @@ ("scope" :> "js-fundamentals")
    @@ ("dom events" :> "html-events")
    @@ ("event handling" :> "html-events")
    @@ ("event bubbling" :> "html-events")
    @@ ("event delegation" :> "html-events")
    @@ ("tailwind" :> "css-tailwind")
    @@ ("tailwind css" :> "css-tailwind")
    @@ ("css" :> "css-tailwind")
    @@ ("git" :> "git-basics")
    @@ ("version control" :> "git-basics")
    @@ ("git commands" :> "git-basics")
    @@ ("branching" :> "git-basics")
    @@ ("merge" :> "git-basics")
    @@ ("rebase" :> "git-basics")
    @@ ("algebra" :> "math-algebra-1")
    @@ ("algebra 1" :> "math-algebra-1")
    @@ ("algebra 2" :> "math-algebra-2")
    @@ ("linear equations" :> "math-algebra-1")
    @@ ("quadratic equations" :> "math-algebra-2")
    @@ ("geometry" :> "math-geometry")
    @@ ("triangles" :> "math-geometry")
    @@ ("circles" :> "math-geometry")
    @@ ("area" :> "math-geometry")
    @@ ("perimeter" :> "math-geometry")
    @@ ("calculus" :> "math-calculus")
    @@ ("derivatives" :> "math-calculus")
    @@ ("integrals" :> "math-calculus")
    @@ ("limits" :> "math-calculus")
    @@ ("statistics" :> "math-statistics")
    @@ ("probability" :> "math-probability")
    @@ ("permutations" :> "math-probability")
    @@ ("combinations" :> "math-probability")
    @@ ("arithmetic" :> "math-arithmetic")
    @@ ("fractions" :> "math-arithmetic")
    @@ ("decimals" :> "math-arithmetic")
    @@ ("percentages" :> "math-percentages")
    @@ ("percent" :> "math-percentages")
    @@ ("profit loss" :> "math-percentages")
    @@ ("interest" :> "math-percentages")
    @@ ("pre-algebra" :> "math-pre-algebra")
    @@ ("prealgebra" :> "math-pre-algebra")
    @@ ("ratios" :> "math-pre-algebra")
    @@ ("word problems" :> "math-word-problems")
    @@ ("biology" :> "science-biology")
    @@ ("cells" :> "science-biology")
    @@ ("genetics" :> "science-biology")
    @@ ("evolution" :> "science-biology")
    @@ ("ecology" :> "science-biology")
    @@ ("chemistry" :> "science-chemistry")
    @@ ("atoms" :> "science-chemistry")
    @@ ("molecules" :> "science-chemistry")
    @@ ("chemical reactions" :> "science-chemistry")
    @@ ("periodic table" :> "science-chemistry")
    @@ ("physics" :> "science-physics")
    @@ ("forces" :> "science-physics")
    @@ ("motion" :> "science-physics")
    @@ ("energy" :> "science-physics")
    @@ ("electricity" :> "science-physics")
    @@ ("magnetism" :> "science-physics")
    @@ ("earth science" :> "science-earth")
    @@ ("geology" :> "science-earth")
    @@ ("weather" :> "science-earth")
    @@ ("climate" :> "science-earth")
    @@ ("environmental science" :> "science-environmental")
    @@ ("us history" :> "history-us")
    @@ ("american history" :> "history-us")
    @@ ("world history" :> "history-world")
    @@ ("geography" :> "geography")
    @@ ("economics" :> "economics")
    @@ ("microeconomics" :> "economics")
    @@ ("macroeconomics" :> "economics")
    @@ ("civics" :> "civics")
    @@ ("government" :> "civics")
    @@ ("politics" :> "civics")
    @@ ("reading comprehension" :> "language-arts-reading")
    @@ ("reading" :> "language-arts-reading")
    @@ ("prompting" :> "vibe-prompting")
    @@ ("prompt engineering" :> "vibe-prompting")
    @@ ("vibe coding" :> "vibe-prompting")
    @@ ("ai prompts" :> "vibe-prompting")
    @@ ("code review" :> "vibe-review")
    @@ ("ai workflow" :> "vibe-workflow")

\* the names every JavaScript object inherits from Object.prototype that a
\* normalized (lowercased) key can spell
InheritedProperties == {"constructor", "__proto__"}

\* TOPIC_ALIASES[key]: an own property, else an inherited one, else undefined
AliasProperty(key) ==
    IF key \in DOMAIN TOPIC_ALIASES THEN JSString(TOPIC_ALIASES[key])
    ELSE IF key \in InheritedProperties THEN JSObject(key)
    ELSE JSUndefined

lookupAlias(obj) ==
    LET v == AliasProperty(normalizeForAlias(obj)) IN IF Truthy(v) THEN v ELSE JSNull

-----------------------------------------------------------------------------
(* website, lib/mcp/tools/match-topic.ts: its alias table, normalizer and lookup *)

Website_TOPIC_ALIASES ==
       ("useeffect" :> "react-hooks")
    @@ ("usestate" :> "react-state")
    @@ ("usecontext" :> "react-hooks")
    @@ ("usememo" :> "react-hooks")
    @@ ("usecallback" :> "react-hooks")
    @@ ("react hooks" :> "react-hooks")
    @@ ("hooks" :> "react-hooks")
    @@ ("closures" :> "js-closures")
    @@ ("closure" :> "js-closures")
    @@ ("javascript closures" :> "js-closures")
    @@ ("async/await" :> "js-async")
    @@ ("async await" :> "js-async")
    @@ ("promises" :> "js-async")
    @@ ("promise" :> "js-async")
    @@ ("asynchronous" :> "js-async")
    @@ ("this keyword" :> "js-this")
    @@ ("this" :> "js-this")
    @@ ("arrow functions" :> "js-this")
    @@ ("prototypes" :> "js-prototypes")
    @@ ("prototype" :> "js-prototypes")
    @@ ("inheritance" :> "js-prototypes")
    @@ ("event loop" :> "js-async")
    @@ ("timers" :> "js-timers")
    @@ ("settimeout" :> "js-timers")
    @@ ("setinterval" :> "js-timers")
    @@ ("algebra" :> "math-algebra-1")
    @@ ("algebra 1" :> "math-algebra-1")
    @@ ("algebra 2" :> "math-algebra-2")
    @@ ("geometry" :> "math-geometry")
    @@ ("calculus" :> "math-calculus")
    @@ ("statistics" :> "math-statistics")
    @@ ("probability" :> "math-probability")
    @@ ("pre-algebra" :> "math-pre-algebra")
    @@ ("prealgebra" :> "math-pre-algebra")
    @@ ("arithmetic" :> "math-pre-algebra")
    @@ ("percentages" :> "math-percentages")
    @@ ("word problems" :> "math-word-problems")
    @@ ("biology" :> "science-biology")
    @@ ("chemistry" :> "science-chemistry")
    @@ ("physics" :> "science-physics")
    @@ ("reading comprehension" :> "reading-comprehension")
    @@ ("reading" :> "reading-comprehension")
    @@ ("comprehension" :> "reading-comprehension")

\* input.replace(/[^a-z0-9\s-]/g, ''): keeps lowercase letters, digits,
\* whitespace and "-"
RECURSIVE Website_RemoveSpecialChars(_)
Website_RemoveSpecialChars(s) ==
    IF s = "" THEN ""
    ELSE LET c == CharAt(s, 1) IN
         (IF PosIn(c, LowerLetters) > 0 \/ PosIn(c, DigitChars) > 0 \/ IsSpaceChar(c) \/ c = "-"
          THEN c ELSE "")
            \o Website_RemoveSpecialChars(Tail(s))

Website_normalizeForAlias(input) ==
    ReplaceSpaceRuns(Website_RemoveSpecialChars(trim(toLowerCase(input))), " ")

\* TOPIC_ALIASES[key] of the website
Website_AliasProperty(key) ==
    IF key \in DOMAIN Website_TOPIC_ALIASES THEN JSString(Website_TOPIC_ALIASES[key])
    ELSE IF key \in InheritedProperties THEN JSObject(key)
    ELSE JSUndefined

Website_lookupAlias(obj) ==
    LET v == Website_AliasProperty(Website_normalizeForAlias(obj)) IN
    IF Truthy(v) THEN v ELSE JSNull

-----------------------------------------------------------------------------
(* topic-matcher.ts: the similarity engine *)

\* MatrixRow without the deletion case
RECURSIVE MatrixRowNoDeletion(_, _, _, _, _)
MatrixRowNoDeletion(prev, a, bChar, j, row) ==
    IF j > Len(a) THEN row
    ELSE LET cell == IF bChar = CharAt(a, j)
                     THEN prev[j]
                     ELSE IF prev[j] <= row[j] THEN prev[j] + 1 ELSE row[j] + 1
             extended == Append(row, cell)
         IN IF Len(extended) = j + 1
            THEN MatrixRowNoDeletion(prev, a, bChar, j + 1, extended) ELSE <<>>

\* One row of the matrix: matrix[i][0..Len(a)] from matrix[i-1], as a sequence
\* whose element j+1 is matrix[i][j].  The tests on Len only fix the order of
\* evaluation: a row is computed in full before the next one reads it.
RECURSIVE MatrixRow(_, _, _, _, _)
MatrixRow(prev, a, bChar, j, row) ==
    IF j > Len(a) THEN row
    ELSE LET cell == IF bChar = CharAt(a, j)
                     THEN prev[j]
                     ELSE Min3(prev[j] + 1,      \* substitution
                               row[j] + 1,       \* insertion
                               prev[j + 1] + 1)  \* deletion
             extended == Append(row, cell)
         IN IF Len(extended) = j + 1 THEN MatrixRow(prev, a, bChar, j + 1, extended) ELSE <<>>

RECURSIVE MatrixRows(_, _, _, _)
MatrixRows(prev, a, b, i) ==
    IF i > Len(b) THEN prev
    ELSE LET row == MatrixRow(prev, a, CharAt(b, i), 1, <<i>>)
         IN IF Len(row) = Len(a) + 1 THEN MatrixRows(row, a, b, i + 1) ELSE <<>>

levenshteinDistance(a, b) ==
    MatrixRows([j \in 1..(Len(a) + 1) |-> j - 1], a, b, 1)[Len(a) + 1]

calculateSimilarity(a, b) ==
    LET distance == levenshteinDistance(toLowerCase(a), toLowerCase(b))
        maxLength == Max2(Len(a), Len(b))
    IN IF maxLength = 0 THEN <<1, 1>> ELSE Rat(maxLength - distance, maxLength)

-----------------------------------------------------------------------------
(* topic-matcher.ts: keywords *)

stopWords ==
    {"the", "a", "an", "and", "or", "but", "in", "on", "at", "to", "for",
     "of", "with", "by", "from", "about", "into", "through", "during",
     "before", "after", "above", "below", "between", "under", "again",
     "further", "then", "once", "here", "there", "when", "where", "why",
     "how", "all", "each", "few", "more", "most", "other", "some", "such",
     "no", "nor", "not", "only", "own", "same", "so", "than", "too", "very",
     "can", "will", "just", "should", "now", "what", "is", "are", "was",
     "were", "be", "been", "being", "have", "has", "had", "having", "do",
     "does", "did", "doing", "would", "could", "might", "must", "shall",
     "learn", "understand", "know", "study", "practice", "quiz", "test", "me"}

\* s.replace(/[^\w\s]/g, ' ')
RECURSIVE ReplaceNonWordChars(_)
ReplaceNonWordChars(s) ==
    IF s = "" THEN ""
    ELSE LET c == CharAt(s, 1) IN
         (IF IsWordChar(c) \/ IsSpaceChar(c) THEN c ELSE " ") \o ReplaceNonWordChars(Tail(s))

\* the length of the longest prefix of s without a character of sep
RECURSIVE PrefixLen(_, _)
PrefixLen(s, sep) ==
    IF s = "" \/ CharAt(s, 1) \in sep THEN 0 ELSE 1 + PrefixLen(Tail(s), sep)

\* s.split(/\s+/): the pieces between the whitespace runs (a leading or
\* trailing run leaves an empty piece)
RECURSIVE SplitSpaces(_)
SplitSpaces(s) ==
    LET n == PrefixLen(s, SpaceChars) IN
    IF n = Len(s) THEN <<s>>
    ELSE <<SubSeq(s, 1, n)>> \o SplitSpaces(TrimStart(SubSeq(s, n + 1, Len(s))))

\* s.split('-')
RECURSIVE SplitHyphen(_)
SplitHyphen(s) ==
    LET n == PrefixLen(s, {"-"}) IN
    IF n = Len(s) THEN <<s>>
    ELSE <<SubSeq(s, 1, n)>> \o SplitHyphen(SubSeq(s, n + 2, Len(s)))

extractKeywords(obj) ==
    SelectSeq(SplitSpaces(ReplaceNonWordChars(toLowerCase(obj))),
              LAMBDA word : Len(word) > 2 /\ word \notin stopWords)

\* topicContainsKeywords answering whether any keyword is in the topic
topicContainsKeywordsAny(topic, keywords) ==
    LET topicParts == SplitHyphen(toLowerCase(topic))
        hit(keyword) == \E p \in 1..Len(topicParts) :
                            Includes(topicParts[p], keyword) \/ Includes(keyword, topicParts[p])
    IN IF \E k \in 1..Len(keywords) : hit(keywords[k]) THEN <<1, 1>> ELSE <<0, 1>>

\* topicContainsKeywords without the break: a keyword counts once for every
\* part it matches
topicContainsKeywordsNoBreak(topic, keywords) ==
    LET topicParts == SplitHyphen(toLowerCase(topic))
        hits(k) == Cardinality({p \in 1..Len(topicParts) :
                        Includes(topicParts[p], keywords[k]) \/ Includes(keywords[k], topicParts[p])})
        Sum[k \in 0..Len(keywords)] == IF k = 0 THEN 0 ELSE Sum[k - 1] + hits(k)
    IN IF Len(keywords) > 0 THEN Rat(Sum[Len(keywords)], Len(keywords)) ELSE <<0, 1>>

topicContainsKeywords(topic, keywords) ==
    LET topicParts == SplitHyphen(toLowerCase(topic))
        hit(keyword) == \E p \in 1..Len(topicParts) :
                            Includes(topicParts[p], keyword) \/ Includes(keyword, topicParts[p])
        matches == Cardinality({k \in 1..Len(keywords) : hit(keywords[k])})
    IN IF Len(keywords) > 0 THEN Rat(matches, Len(keywords)) ELSE <<0, 1>>

-----------------------------------------------------------------------------
(* topic-matcher.ts: matchTopic *)

\* A MatchResult.  The optional field alternatives is present when
\* hasAlternatives is TRUE.
MatchResult(topic, confidence, matchType) ==
    [topic |-> topic, confidence |-> confidence, matchType |-> matchType,
     hasAlternatives |-> FALSE, alternatives |-> <<>>]

MatchResultWith(topic, confidence, matchType, alternatives) ==
    [topic |-> topic, confidence |-> confidence, matchType |-> matchType,
     hasAlternatives |-> TRUE, alternatives |-> alternatives]

\* How a call ends: it returns a value or it throws.
Return(v) == [kind |-> "return", value |-> v]
Throw(e) == [kind |-> "throw", value |-> e]

NoMatch == MatchResult(JSNull, <<0, 1>>, "none")

\* availableTopics.find(t => t.toLowerCase() === target)
FindTopic(topics, target) ==
    LET hits == {i \in 1..Len(topics) : toLowerCase(topics[i]) = target} IN
    IF hits = {} THEN JSUndefined
    ELSE JSString(topics[CHOOSE i \in hits : \A k \in hits : i <= k])

\* Step 1.  <<>> when the stage does not return.
ExactStage(normalized, topics) ==
    LET exactMatch == FindTopic(topics, normalized)
        hyphenated == ReplaceSpaceRuns(normalized, "-")
        hyphenMatch == FindTopic(topics, hyphenated)
    IN IF Truthy(exactMatch) THEN <<Return(MatchResult(exactMatch, <<1, 1>>, "exact"))>>
       ELSE IF Truthy(hyphenMatch) THEN <<Return(MatchResult(hyphenMatch, <<1, 1>>, "exact"))>>
       ELSE <<>>

\* AliasStage looking the alias topic up in availableTopics by its exact spelling
AliasStageCaseSensitive(obj, topics) ==
    LET aliasMatch == lookupAlias(obj) IN
    IF ~Truthy(aliasMatch) THEN <<>>
    ELSE IF aliasMatch.type # "string"
    THEN <<Throw("TypeError: aliasMatch.toLowerCase is not a function")>>
    ELSE IF \E i \in 1..Len(topics) : topics[i] = aliasMatch.value
         THEN <<Return(MatchResult(aliasMatch, <<19, 20>>, "alias"))>>
         ELSE <<>>

\* AliasStage returning the topic as the alias table spells it
AliasStageTableSpelling(obj, topics) ==
    LET aliasMatch == lookupAlias(obj) IN
    IF ~Truthy(aliasMatch) THEN <<>>
    ELSE IF aliasMatch.type # "string"
    THEN <<Throw("TypeError: aliasMatch.toLowerCase is not a function")>>
    ELSE IF toLowerCase(aliasMatch.value) \in {toLowerCase(topics[i]) : i \in 1..Len(topics)}
         THEN <<Return(MatchResult(aliasMatch, <<19, 20>>, "alias"))>>
         ELSE <<>>

\* Step 2.  aliasMatch.toLowerCase() throws a TypeError when aliasMatch is
\* not a string.
AliasStage(obj, topics) ==
    LET aliasMatch == lookupAlias(obj) IN
    IF ~Truthy(aliasMatch) THEN <<>>
    ELSE IF aliasMatch.type # "string"
    THEN <<Throw("TypeError: aliasMatch.toLowerCase is not a function")>>
    ELSE LET wanted == toLowerCase(aliasMatch.value)
             topicsSet == {toLowerCase(topics[i]) : i \in 1..Len(topics)}
             actualTopic == FindTopic(topics, wanted)
         IN IF wanted \in topicsSet
            THEN <<Return(MatchResult(IF Truthy(actualTopic) THEN actualTopic ELSE aliasMatch,
                                      <<19, 20>>, "alias"))>>
            ELSE <<>>

TopicPrefixes == <<"js", "react", "math", "science", "html", "css", "git", "vibe", "reading">>
ObjectivePrefixes == <<"javascript", "react", "math", "science">>

\* topic.replace(/^(js|react|math|science|html|css|git|vibe|reading)-/, '')
StripTopicPrefix(topic) ==
    LET hits == {i \in 1..Len(TopicPrefixes) : StartsWith(topic, TopicPrefixes[i] \o "-")} IN
    IF hits = {} THEN topic
    ELSE LET i == CHOOSE i \in hits : \A k \in hits : i <= k
         IN SubSeq(topic, Len(TopicPrefixes[i]) + 2, Len(topic))

\* normalized.replace(/^(javascript|react|math|science)\s*/i, '')
StripObjectivePrefix(normalized) ==
    LET hits == {i \in 1..Len(ObjectivePrefixes) :
                    StartsWith(toLowerCase(normalized), ObjectivePrefixes[i])} IN
    IF hits = {} THEN normalized
    ELSE LET i == CHOOSE i \in hits : \A k \in hits : i <= k
         IN TrimStart(SubSeq(normalized, Len(ObjectivePrefixes[i]) + 1, Len(normalized)))

\* the score the fuzzy loop pushes for one topic
FuzzyScore(normalized, topic) ==
    LET fullScore == calculateSimilarity(normalized, topic)
        topicWithoutPrefix == StripTopicPrefix(topic)
        prefixlessScore == calculateSimilarity(normalized, topicWithoutPrefix)
        objectiveClean == StripObjectivePrefix(normalized)
        cleanScore == calculateSimilarity(objectiveClean, topicWithoutPrefix)
    IN RatMax3(fullScore, prefixlessScore, cleanScore)

\* InsertByScore placing an element before the elements of equal score
RECURSIVE InsertByScoreUnstable(_, _)
InsertByScoreUnstable(sorted, m) ==
    IF sorted = <<>> THEN <<m>>
    ELSE IF RatGeq(m.score, Head(sorted).score) THEN <<m>> \o sorted
    ELSE <<Head(sorted)>> \o InsertByScoreUnstable(Tail(sorted), m)

\* matches.sort((a, b) => b.score - a.score): descending, stable
RECURSIVE InsertByScore(_, _)
InsertByScore(sorted, m) ==
    IF sorted = <<>> THEN <<m>>
    ELSE IF RatLt(Head(sorted).score, m.score) THEN <<m>> \o sorted
    ELSE <<Head(sorted)>> \o InsertByScore(Tail(sorted), m)

\* SortByScore with the comparator reversed: (a, b) => a.score - b.score
RECURSIVE SortByScoreAscending(_)
SortByScoreAscending(matches) ==
    IF matches = <<>> THEN <<>>
    ELSE LET rest == SortByScoreAscending(SubSeq(matches, 1, Len(matches) - 1))
             m == matches[Len(matches)]
             smaller == SelectSeq(rest, LAMBDA x : ~RatLt(m.score, x.score))
             larger == SelectSeq(rest, LAMBDA x : RatLt(m.score, x.score))
         IN smaller \o <<m>> \o larger

RECURSIVE SortByScore(_)
SortByScore(matches) ==
    IF matches = <<>> THEN <<>>
    ELSE InsertByScore(SortByScore(SubSeq(matches, 1, Len(matches) - 1)), matches[Len(matches)])

\* matches.slice(1, 4)
Slice1to4(matches) == SubSeq(matches, 2, IF Len(matches) < 4 THEN Len(matches) ELSE 4)

\* .map(m => ({ topic: m.topic, confidence: m.score * factor }))
AsAlternatives(matches, factor) ==
    [i \in 1..Len(matches) |->
        [topic |-> matches[i].topic, confidence |-> RatMul(matches[i].score, factor)]]

\* Step 3: the sorted array fuzzyMatches
FuzzyMatches(normalized, topics) ==
    SortByScore([i \in 1..Len(topics) |->
                    [topic |-> topics[i], score |-> FuzzyScore(normalized, topics[i])]])

FuzzyStage(fuzzyMatches) ==
    IF Len(fuzzyMatches) > 0 /\ RatGeq(fuzzyMatches[1].score, <<7, 10>>)
    THEN <<Return(MatchResultWith(
                JSString(fuzzyMatches[1].topic), fuzzyMatches[1].score, "fuzzy",
                AsAlternatives(SelectSeq(Slice1to4(fuzzyMatches),
                                         LAMBDA m : RatGeq(m.score, <<1, 2>>)), <<1, 1>>)))>>
    ELSE <<>>

\* Step 4
KeywordStage(obj, topics) ==
    LET keywords == extractKeywords(obj)
        scored == [i \in 1..Len(topics) |->
                      [topic |-> topics[i], score |-> topicContainsKeywords(topics[i], keywords)]]
        keywordMatches == SortByScore(SelectSeq(scored, LAMBDA m : RatLt(<<0, 1>>, m.score)))
    IN IF Len(keywords) > 0 /\ Len(keywordMatches) > 0
          /\ RatGeq(keywordMatches[1].score, <<1, 2>>)
       THEN <<Return(MatchResultWith(
                JSString(keywordMatches[1].topic), RatMul(keywordMatches[1].score, <<4, 5>>),
                "keyword", AsAlternatives(Slice1to4(keywordMatches), <<4, 5>>)))>>
       ELSE <<>>

\* FallbackStage without the 0.4 floor
FallbackStageNoFloor(fuzzyMatches) ==
    IF Len(fuzzyMatches) > 0
    THEN <<Return(MatchResultWith(
                JSString(fuzzyMatches[1].topic), RatMul(fuzzyMatches[1].score, <<7, 10>>),
                "fuzzy", AsAlternatives(Slice1to4(fuzzyMatches), <<7, 10>>)))>>
    ELSE <<>>

\* FallbackStage without the 0.7 discount on the confidence
FallbackStageUndiscounted(fuzzyMatches) ==
    IF Len(fuzzyMatches) > 0 /\ RatGeq(fuzzyMatches[1].score, <<2, 5>>)
    THEN <<Return(MatchResultWith(
                JSString(fuzzyMatches[1].topic), fuzzyMatches[1].score,
                "fuzzy", AsAlternatives(Slice1to4(fuzzyMatches), <<7, 10>>)))>>
    ELSE <<>>

\* the best fuzzy match with low confidence
FallbackStage(fuzzyMatches) ==
    IF Len(fuzzyMatches) > 0 /\ RatGeq(fuzzyMatches[1].score, <<2, 5>>)
    THEN <<Return(MatchResultWith(
                JSString(fuzzyMatches[1].topic), RatMul(fuzzyMatches[1].score, <<7, 10>>),
                "fuzzy", AsAlternatives(Slice1to4(fuzzyMatches), <<7, 10>>)))>>
    ELSE <<>>

\* matchTopic with the fuzzy stage tried before the alias stage
matchTopicFuzzyFirst(obj, topics) ==
    IF obj = "" \/ Len(trim(obj)) = 0 THEN Return(NoMatch)
    ELSE LET normalized == normalizeForAlias(obj)
             exact == ExactStage(normalized, topics)
             alias == AliasStage(obj, topics)
             fuzzyMatches == FuzzyMatches(normalized, topics)
             fuzzy == FuzzyStage(fuzzyMatches)
             keyword == KeywordStage(obj, topics)
             fallback == FallbackStage(fuzzyMatches)
         IN IF exact # <<>> THEN exact[1]
            ELSE IF fuzzy # <<>> THEN fuzzy[1]
            ELSE IF alias # <<>> THEN alias[1]
            ELSE IF keyword # <<>> THEN keyword[1]
            ELSE IF fallback # <<>> THEN fallback[1]
            ELSE Return(NoMatch)

\* matchTopic with the low-confidence fuzzy fallback tried before the
\* keyword stage
matchTopicFallbackFirst(obj, topics) ==
    IF obj = "" \/ Len(trim(obj)) = 0 THEN Return(NoMatch)
    ELSE LET normalized == normalizeForAlias(obj)
             exact == ExactStage(normalized, topics)
             alias == AliasStage(obj, topics)
             fuzzyMatches == FuzzyMatches(normalized, topics)
             fuzzy == FuzzyStage(fuzzyMatches)
             keyword == KeywordStage(obj, topics)
             fallback == FallbackStage(fuzzyMatches)
         IN IF exact # <<>> THEN exact[1]
            ELSE IF alias # <<>> THEN alias[1]
            ELSE IF fuzzy # <<>> THEN fuzzy[1]
            ELSE IF fallback # <<>> THEN fallback[1]
            ELSE IF keyword # <<>> THEN keyword[1]
            ELSE Return(NoMatch)

matchTopic(obj, topics) ==
    IF obj = "" \/ Len(trim(obj)) = 0 THEN Return(NoMatch)
    ELSE LET normalized == normalizeForAlias(obj)
             exact == ExactStage(normalized, topics)
             alias == AliasStage(obj, topics)
             fuzzyMatches == FuzzyMatches(normalized, topics)
             fuzzy == FuzzyStage(fuzzyMatches)
             keyword == KeywordStage(obj, topics)
             fallback == FallbackStage(fuzzyMatches)
         IN IF exact # <<>> THEN exact[1]
            ELSE IF alias # <<>> THEN alias[1]
            ELSE IF fuzzy # <<>> THEN fuzzy[1]
            ELSE IF keyword # <<>> THEN keyword[1]
            ELSE IF fallback # <<>> THEN fallback[1]
            ELSE Return(NoMatch)

MATCH_THRESHOLD == <<3, 5>>

\* shouldUseItemBank with || for &&
shouldUseItemBankOr(match) ==
    match.topic # JSNull \/ RatGeq(match.confidence, MATCH_THRESHOLD)

\* shouldUseItemBank with > for >=
shouldUseItemBankStrict(match) ==
    match.topic # JSNull /\ RatLt(MATCH_THRESHOLD, match.confidence)

shouldUseItemBank(match) ==
    match.topic # JSNull /\ RatGeq(match.confidence, MATCH_THRESHOLD)

-----------------------------------------------------------------------------
(* index.ts: the item bank, the tables and the helpers of the tools *)

\* item-bank.json as read at start-up: here three items of two topics
ItemBank ==
    <<[id |-> "js-closures-001", topic |-> "js-closures", difficulty |-> "easy"],
      [id |-> "js-closures-002", topic |-> "js-closures", difficulty |-> "easy"],
      [id |-> "react-hooks-001", topic |-> "react-hooks", difficulty |-> "hard"],
      [id |-> "sql-joins-001", topic |-> "SQL-Joins", difficulty |-> "medium"]>>

\* the topics of the items, each once, in the order of their first item
RECURSIVE TopicsOf(_)
TopicsOf(items) ==
    IF items = <<>> THEN <<>>
    ELSE LET before == TopicsOf(SubSeq(items, 1, Len(items) - 1))
             topic == items[Len(items)].topic
         IN IF \E i \in 1..Len(before) : before[i] = topic THEN before
            ELSE Append(before, topic)

\* Array.from(allTopics)
allTopics == TopicsOf(ItemBank)

\* itemsByTopic[topic] || []
itemsByTopic(topic) == SelectSeq(ItemBank, LAMBDA item : item.topic = topic)

findItemsFromBank(topic, difficulty) ==
    LET topicLower == toLowerCase(topic)
        candidates == SelectSeq(itemsByTopic(topicLower),
                                LAMBDA item : item.difficulty = difficulty)
    IN IF itemsByTopic(topicLower) # <<>>
       THEN (IF Len(candidates) > 0 THEN candidates ELSE itemsByTopic(topicLower))
       ELSE <<>>

\* objective.toLowerCase().trim().replace(/\s+/g, ' ')
normalizeObjective(obj) == ReplaceSpaceRuns(trim(toLowerCase(obj)), " ")

HexChars == CharsOf(DigitChars) \cup CharsOf("abcdefABCDEF")

\* what the column generated_items.id (UUID PRIMARY KEY) accepts
IsUUID(id) ==
    /\ Len(id) = 36
    /\ \A i \in 1..36 :
          IF i \in {9, 14, 19, 24} THEN CharAt(id, i) = "-" ELSE CharAt(id, i) \in HexChars

\* The tables of the database.  mastery has one row for each pair
\* (user_id, objective).
EmptyTables == [mastery |-> {}, responses |-> <<>>, generated_items |-> <<>>]

\* one call of the Supabase client, as the database receives it
Request(table, op, payload) == [table |-> table, op |-> op, payload |-> payload]

\* the generated_items row of an insert: a column the insert leaves out
\* gets its default
StoredItem(row) ==
    [row EXCEPT !.source = IF row.source = JSUndefined THEN JSString("ai-generated")
                           ELSE row.source,
                !.model = IF row.model = JSUndefined THEN JSNull ELSE row.model]

\* insert into generated_items: the error and the table afterwards
InsertItem(tables, row) ==
    IF IsUUID(row.id)
    THEN [error |-> FALSE,
          tables |-> [tables EXCEPT !.generated_items = Append(@, StoredItem(row))]]
    ELSE [error |-> TRUE, tables |-> tables]

\* the position of the row the query of findCachedGeneratedItem returns:
\* the first of those with the greatest use_count, 0 when there is none
CachedPosition(items, normalized, difficulty) ==
    LET hits == {i \in 1..Len(items) :
                    /\ items[i].objective_normalized = normalized
                    /\ items[i].difficulty = difficulty
                    /\ items[i].quality = "unreviewed"}
    IN IF hits = {} THEN 0
       ELSE CHOOSE i \in hits :
               \A k \in hits : \/ items[k].use_count < items[i].use_count
                                \/ (items[k].use_count = items[i].use_count /\ i <= k)

NoItem == [id |-> ""]

\* found = FALSE stands for the return value null
findCachedGeneratedItem(tables, obj, difficulty, fail) ==
    LET normalized == normalizeObjective(obj)
        select == Request("generated_items", "select",
                          [objective_normalized |-> normalized, difficulty |-> difficulty,
                           quality |-> "unreviewed"])
        at == CachedPosition(tables.generated_items, normalized, difficulty)
    IN IF fail = "generated_items.select" \/ at = 0
       THEN [found |-> FALSE, item |-> NoItem, tables |-> tables, requests |-> <<select>>]
       ELSE LET item == tables.generated_items[at]
                update == Request("generated_items", "update",
                                  [id |-> item.id, use_count |-> item.use_count + 1])
            IN [found |-> TRUE,
                item |-> [item EXCEPT !.source = JSString("ai-generated")],
                tables |-> [tables EXCEPT !.generated_items[at].use_count = @ + 1],
                requests |-> <<select, update>>]

\* generate-item.ts: the item generateItem returns when the model answers
\* with a well-formed question
generateItem(obj, difficulty, inferredTopic, random) ==
    [id |-> "gen-" \o random,
     objective |-> obj,
     objective_normalized |-> normalizeObjective(obj),
     topic |-> inferredTopic,
     difficulty |-> difficulty,
     source |-> JSString("ai-generated"),
     model |-> JSString("claude-sonnet-4-20250514"),
     quality |-> "unreviewed"]

\* the error of the insert is logged and nothing else
storeGeneratedItem(tables, item) ==
    LET row == [id |-> item.id, objective |-> item.objective,
                objective_normalized |-> item.objective_normalized,
                topic |-> item.topic, difficulty |-> item.difficulty,
                source |-> item.source, model |-> item.model,
                quality |-> item.quality, use_count |-> 1]
    IN [tables |-> InsertItem(tables, row).tables,
        requests |-> <<Request("generated_items", "insert", row)>>]

\* value || null
OrNull(value) == IF Truthy(value) THEN value ELSE JSNull

\* Math.floor(random * n), counted from 1; random is a rational in [0, 1)
RandomIndex(random, n) == (random[1] * n) \div random[2] + 1

\* The fields of a reply that matter here; a field the reply does not have
\* keeps the value it has in NoReply.
NoReply ==
    [threw |-> FALSE, error |-> "", source |-> "", item_id |-> "",
     matched_topic |-> JSNull, confidence |-> <<0, 1>>, match_type |-> "",
     will_use_item_bank |-> FALSE, success |-> FALSE,
     status |-> "", correct |-> 0, total |-> 0, response_logged |-> FALSE,
     objectives |-> {}, topics |-> <<>>]

Reply(fields) == fields @@ NoReply

\* what a handler has done when it returns: the tables, the requests it sent
\* to the database, its reply and the number of generateItem calls
Outcome(tables, sent, answer, generations) ==
    [tables |-> tables, requests |-> sent, reply |-> answer, generatorCalls |-> generations]

\* the objectives of the tool calls: two topics of the bank, one of them
\* spelled with capitals, and two spellings of an objective the bank does
\* not cover
ServerObjectives == {"js-closures", "SQL-Joins", "Quantum Physics", "quantum  physics "}

\* the topics with their item counts, as both interfaces list them
TopicList ==
    [i \in 1..Len(allTopics) |->
        [topic |-> allTopics[i], item_count |-> Len(itemsByTopic(allTopics[i]))]]

-----------------------------------------------------------------------------
(* index.ts: the tools of the MCP interface (server.tool) *)

McpListTopics(tables) == Outcome(tables, <<>>, Reply([topics |-> TopicList]), 0)

\* match is what matchTopic(objective, Array.from(allTopics)) returned
McpGenerate(tables, args, env, enabled, match) ==
    IF match.kind = "throw" THEN Outcome(tables, <<>>, Reply([threw |-> TRUE]), 0)
    ELSE
    LET m == match.value
        candidates == IF shouldUseItemBank(m) /\ Truthy(m.topic)
                      THEN findItemsFromBank(m.topic.value, args.difficulty)
                      ELSE <<>>
        cached == findCachedGeneratedItem(tables, args.objective.value, args.difficulty,
                                          env.fail)
        generatedItem == generateItem(args.objective.value, args.difficulty, m.topic, env.suffix)
        stored == storeGeneratedItem(cached.tables, generatedItem)
    IN IF Len(candidates) > 0
       THEN Outcome(tables, <<>>,
                    Reply([item_id |-> candidates[RandomIndex(env.random, Len(candidates))].id,
                           source |-> "curated", confidence |-> m.confidence,
                           match_type |-> m.matchType]), 0)
       ELSE IF cached.found
       THEN Outcome(cached.tables, cached.requests,
                    Reply([item_id |-> cached.item.id, source |-> "ai-generated-cached"]), 0)
       ELSE IF ~enabled
       THEN Outcome(cached.tables, cached.requests,
                    Reply([error |-> "no_match_generation_disabled",
                           matched_topic |-> m.topic, confidence |-> m.confidence]), 0)
       ELSE IF env.generatorThrows
       THEN Outcome(cached.tables, cached.requests,
                    Reply([error |-> "generation_failed",
                           matched_topic |-> m.topic, confidence |-> m.confidence]), 1)
       ELSE Outcome(stored.tables, cached.requests \o stored.requests,
                    Reply([item_id |-> generatedItem.id, source |-> "ai-generated"]), 1)

McpMatchTopic(tables, args, match) ==
    IF match.kind = "throw" THEN Outcome(tables, <<>>, Reply([threw |-> TRUE]), 0)
    ELSE
    LET m == match.value
        hasItems == Truthy(m.topic) /\ Len(itemsByTopic(m.topic.value)) > 0
    IN Outcome(tables, <<>>,
               Reply([matched_topic |-> m.topic, confidence |-> m.confidence,
                      match_type |-> m.matchType,
                      will_use_item_bank |-> shouldUseItemBank(m) /\ hasItems]), 0)

McpAddItem(tables, args, env) ==
    LET id == "ext-" \o env.suffix
        row == [id |-> id, objective |-> args.objective.value,
                objective_normalized |-> normalizeObjective(args.objective.value),
                topic |-> OrNull(args.topic), difficulty |-> args.difficulty,
                source |-> args.source, model |-> JSNull,
                quality |-> "unreviewed", use_count |-> 0]
        insert == InsertItem(tables, row)
    IN Outcome(insert.tables, <<Request("generated_items", "insert", row)>>,
               IF insert.error
               THEN Reply([success |-> FALSE, error |-> "storage_failed"])
               ELSE Reply([success |-> TRUE, item_id |-> id]), 0)

\* .eq("user_id", user_id).eq("objective", objective).single(): <<>> stands
\* for data = null
MasteryRow(tables, user_id, obj, fail) ==
    LET rows == {row \in tables.mastery : row.user_id = user_id /\ row.objective = obj} IN
    IF fail = "mastery.select" \/ rows = {} THEN <<>> ELSE <<CHOOSE row \in rows : TRUE>>

\* upsert(row, { onConflict: "user_id,objective" })
UpsertMastery(tables, row, fail) ==
    IF fail = "mastery.upsert" THEN tables
    ELSE [tables EXCEPT !.mastery =
            {old \in @ : ~(old.user_id = row.user_id /\ old.objective = row.objective)}
                \cup {row}]

McpRecord(tables, args, env) ==
    LET wasCorrect == toUpperCase(args.selected_answer) = toUpperCase(args.correct_answer)
        responseRecord ==
            [user_id |-> args.user_id, objective |-> args.objective.value,
             item_id |-> OrNull(args.item_id),
             selected_answer |-> toUpperCase(args.selected_answer),
             correct_answer |-> toUpperCase(args.correct_answer),
             is_correct |-> wasCorrect]
        responseError == env.fail = "responses.insert"
        logged == IF responseError THEN tables
                  ELSE [tables EXCEPT !.responses = Append(@, responseRecord)]
        \* the update names no row: "gen-..." and "ext-..." are not values of
        \* the column id
        statistics ==
            IF Truthy(args.item_id)
               /\ (StartsWith(args.item_id.value, "gen-") \/ StartsWith(args.item_id.value, "ext-"))
            THEN <<Request("generated_items", "update",
                           [id |-> args.item_id.value,
                            total_attempts |-> "increment_counter",
                            correct_count |-> IF wasCorrect THEN "increment_counter"
                                              ELSE "undefined"])>>
            ELSE <<>>
        existing == MasteryRow(logged, args.user_id, args.objective.value, env.fail)
        correctCount == (IF existing = <<>> THEN 0 ELSE existing[1].correct)
                            + (IF wasCorrect THEN 1 ELSE 0)
        totalCount == (IF existing = <<>> THEN 0 ELSE existing[1].total) + 1
        row == [user_id |-> args.user_id, objective |-> args.objective.value,
                correct |-> correctCount, total |-> totalCount]
    IN Outcome(UpsertMastery(logged, row, env.fail),
               <<Request("responses", "insert", responseRecord)>> \o statistics
                  \o <<Request("mastery", "select",
                               [user_id |-> args.user_id, objective |-> args.objective.value]),
                       Request("mastery", "upsert", row)>>,
               Reply([correct |-> correctCount, total |-> totalCount,
                      response_logged |-> ~responseError]), 0)

McpGetStatus(tables, args, env) ==
    IF Truthy(args.objective)
    THEN LET row == MasteryRow(tables, args.user_id, args.objective.value, env.fail) IN
         Outcome(tables,
                 <<Request("mastery", "select",
                           [user_id |-> args.user_id, objective |-> args.objective.value])>>,
                 IF row = <<>> THEN Reply([status |-> "no_data"])
                 ELSE Reply([correct |-> row[1].correct, total |-> row[1].total]), 0)
    ELSE Outcome(tables,
                 <<Request("mastery", "select", [user_id |-> args.user_id])>>,
                 Reply([objectives |->
                          IF env.fail = "mastery.select" THEN {}
                          ELSE {row \in tables.mastery : row.user_id = args.user_id}]), 0)

-----------------------------------------------------------------------------
(* index.ts: the tools of the REST interface (handleToolCall) *)

RestListTopics(tables) == Outcome(tables, <<>>, Reply([topics |-> TopicList]), 0)

RestGenerate(tables, args, env, enabled, match) ==
    IF match.kind = "throw" THEN Outcome(tables, <<>>, Reply([threw |-> TRUE]), 0)
    ELSE
    LET m == match.value
        candidates == IF shouldUseItemBank(m) /\ Truthy(m.topic)
                      THEN findItemsFromBank(m.topic.value, args.difficulty)
                      ELSE <<>>
        cached == findCachedGeneratedItem(tables, args.objective.value, args.difficulty,
                                          env.fail)
        generatedItem == generateItem(args.objective.value, args.difficulty, m.topic, env.suffix)
        stored == storeGeneratedItem(cached.tables, generatedItem)
    IN IF Len(candidates) > 0
       THEN Outcome(tables, <<>>,
                    Reply([item_id |-> candidates[RandomIndex(env.random, Len(candidates))].id,
                           source |-> "curated", confidence |-> m.confidence]), 0)
       ELSE IF cached.found
       THEN Outcome(cached.tables, cached.requests,
                    Reply([item_id |-> cached.item.id, source |-> "ai-generated-cached"]), 0)
       ELSE IF ~enabled
       THEN Outcome(cached.tables, cached.requests,
                    Reply([error |-> "no_match_generation_disabled",
                           matched_topic |-> m.topic]), 0)
       ELSE IF env.generatorThrows
       THEN Outcome(cached.tables, cached.requests,
                    Reply([error |-> "generation_failed"]), 1)
       ELSE Outcome(stored.tables, cached.requests \o stored.requests,
                    Reply([item_id |-> generatedItem.id, source |-> "ai-generated"]), 1)

RestMatchTopic(tables, args, match) ==
    IF match.kind = "throw" THEN Outcome(tables, <<>>, Reply([threw |-> TRUE]), 0)
    ELSE
    LET m == match.value
        hasItems == Truthy(m.topic) /\ Len(itemsByTopic(m.topic.value)) > 0
    IN Outcome(tables, <<>>,
               Reply([matched_topic |-> m.topic, confidence |-> m.confidence,
                      match_type |-> m.matchType,
                      will_use_item_bank |-> shouldUseItemBank(m) /\ hasItems]), 0)

\* the insert has no column model, and source || "external" for source
RestAddItem(tables, args, env) ==
    LET id == "ext-" \o env.suffix
        row == [id |-> id, objective |-> args.objective.value,
                objective_normalized |-> normalizeObjective(args.objective.value),
                topic |-> OrNull(args.topic), difficulty |-> args.difficulty,
                source |-> IF Truthy(args.source) THEN args.source ELSE JSString("external"),
                model |-> JSUndefined,
                quality |-> "unreviewed", use_count |-> 0]
        insert == InsertItem(tables, row)
    IN Outcome(insert.tables, <<Request("generated_items", "insert", row)>>,
               IF insert.error
               THEN Reply([success |-> FALSE, error |-> "error.message"])
               ELSE Reply([success |-> TRUE, item_id |-> id]), 0)

RestRecord(tables, args, env) ==
    LET wasCorrect == toUpperCase(args.selected_answer) = toUpperCase(args.correct_answer)
        responseRecord ==
            [user_id |-> args.user_id, objective |-> args.objective.value,
             item_id |-> OrNull(args.item_id),
             selected_answer |-> toUpperCase(args.selected_answer),
             correct_answer |-> toUpperCase(args.correct_answer),
             is_correct |-> wasCorrect]
        responseError == env.fail = "responses.insert"
        logged == IF responseError THEN tables
                  ELSE [tables EXCEPT !.responses = Append(@, responseRecord)]
        existing == MasteryRow(logged, args.user_id, args.objective.value, env.fail)
        correctCount == (IF existing = <<>> THEN 0 ELSE existing[1].correct)
                            + (IF wasCorrect THEN 1 ELSE 0)
        totalCount == (IF existing = <<>> THEN 0 ELSE existing[1].total) + 1
        row == [user_id |-> args.user_id, objective |-> args.objective.value,
                correct |-> correctCount, total |-> totalCount]
    IN Outcome(UpsertMastery(logged, row, env.fail),
               <<Request("responses", "insert", responseRecord),
                 Request("mastery", "select",
                         [user_id |-> args.user_id, objective |-> args.objective.value]),
                 Request("mastery", "upsert", row)>>,
               Reply([correct |-> correctCount, total |-> totalCount,
                      response_logged |-> ~responseError]), 0)

RestGetStatus(tables, args, env) ==
    IF Truthy(args.objective)
    THEN LET row == MasteryRow(tables, args.user_id, args.objective.value, env.fail) IN
         Outcome(tables,
                 <<Request("mastery", "select",
                           [user_id |-> args.user_id, objective |-> args.objective.value])>>,
                 IF row = <<>> THEN Reply([status |-> "no_data"])
                 ELSE Reply([correct |-> row[1].correct, total |-> row[1].total]), 0)
    ELSE Outcome(tables,
                 <<Request("mastery", "select", [user_id |-> args.user_id])>>,
                 Reply([objectives |->
                          IF env.fail = "mastery.select" THEN {}
                          ELSE {row \in tables.mastery : row.user_id = args.user_id}]), 0)

-----------------------------------------------------------------------------
(* The inputs the calls are made with *)

\* the longest topic list drawn from TopicPool
MaxTopics == 2
\* the longest topic list drawn from RankedPool
MaxRanked == 5
\* the longest string calculateSimilarity is called with
MaxSimLen == 3

\* objectives for the whole cascade: the guard, exact and hyphenated hits,
\* alias keys, inherited property names, fuzzy, keyword and fallback cases
Objectives ==
    {"", "  ", "!!!", "js-closures", "JS Closures", "c++",
     "useEffect", "Use  Effect!", "closure", "Geography", "constructor", "__proto__",
     "JavaScript Closures", "react hook", "math hooks", "hooks and closures",
     "xyzzy nonsense quantum", "probability and dice games", "xyz abc", "ab c",
     "abc xyz abc qqq"}

TopicPool ==
    {"js-closures", "JS-Closures", "react-hooks", "closures", "geography", "c++",
     "math-probability", "abc-q", "abc-xyz"}

\* objectives and topics for the rankings: equal and different scores
RankedObjectives == {"abcd", "ab c", "abc xyz"}
RankedPool == {"abcx", "abcy", "js-abcd"}

RECURSIVE SeqsUpTo(_, _)
SeqsUpTo(S, n) ==
    IF n = 0 THEN {<<>>}
    ELSE LET shorter == SeqsUpTo(S, n - 1) IN
         shorter \cup {Append(q, x) : q \in shorter, x \in S}

SimAlphabet == {"a", "b", "A", DottedCapitalI}

RECURSIVE StringsUpTo(_, _)
StringsUpTo(alphabet, n) ==
    IF n = 0 THEN {""}
    ELSE LET shorter == StringsUpTo(alphabet, n - 1) IN
         shorter \cup {s \o c : s \in shorter, c \in alphabet}

SimStrings == StringsUpTo(SimAlphabet, MaxSimLen)

\* the number of tool calls of a run
MaxCalls == 2

Users == {"u1"}
Difficulties == {"easy", "hard"}
Randoms == {<<0, 1>>, <<1, 2>>}

\* a row of generated_items that is there when the server starts
SeedItem ==
    [id |-> "123e4567-e89b-12d3-a456-426614174000",
     objective |-> "quantum physics", objective_normalized |-> "quantum physics",
     topic |-> JSNull, difficulty |-> "easy",
     source |-> JSString("ai-generated"), model |-> JSString("claude-sonnet-4-20250514"),
     quality |-> "unreviewed", use_count |-> 1]

InitialTables == {EmptyTables, [EmptyTables EXCEPT !.generated_items = <<SeedItem>>]}

\* objectives for lookupAlias: spellings of alias keys that differ in letter
\* case, in whitespace at the ends and in punctuation, and other words
\* the length of a keyword list
MaxKeywords == 3

\* topics with a part a keyword contains, a part that contains a keyword, two
\* parts one keyword matches, and an empty part
KeywordTopics == {"js-closures", "math-probability", "hooks-Hooks", "js--dom"}
KeywordPool == {"closure", "mathematics", "hooks", "dice"}

AliasObjectives ==
    {"useEffect", "USEEFFECT", "  useEffect ", "useEffect!", "use.Effect", "(useEffect)",
     "! useEffect", "useEffect ?", "use effect", "use-effect", "use/effect", "use_effect",
     "closure", "Closure?", " closure", "xyz", "constructor", "Constructor!"}

-----------------------------------------------------------------------------
(* The calls *)

NotCalled == [kind |-> "none", value |-> NoMatch]

NoCall ==
    [name |-> "", user_id |-> "", objective |-> JSUndefined, difficulty |-> "",
     selected_answer |-> "", correct_answer |-> "", item_id |-> JSUndefined,
     topic |-> JSUndefined, source |-> JSUndefined]

\* a tool call; an argument the call does not give is undefined
Call(fields) == fields @@ NoCall

\* What a call meets outside the program: the database request that fails,
\* the values of Math.random() (a number for the choice among the
\* candidates, a suffix for a new id), and whether generateItem throws.
Env(fail, random, generatorThrows) ==
    [fail |-> fail, random |-> random, suffix |-> "k3x9q", generatorThrows |-> generatorThrows]

\* no tool has been called
ServerIdle ==
    /\ store = [mcp |-> EmptyTables, rest |-> EmptyTables]
    /\ requests = [mcp |-> <<>>, rest |-> <<>>]
    /\ reply = [mcp |-> NoReply, rest |-> NoReply]
    /\ call = NoCall
    /\ generated = {}
    /\ generatorCalls = [mcp |-> 0, rest |-> 0]
    /\ generationEnabled = FALSE
    /\ ncalls = 0

\* no mcq_record call is under way
RecordIdle == inflight = <<>>

\* no HTTP request has been answered
NoResponse == [client |-> "", method |-> "", url |-> "", status |-> 0, handledBy |-> 0]

\* the HTTP server has taken no request: let transport = null
HttpIdle == transport = 0 /\ connections = <<>> /\ response = NoResponse

\* no topicContainsKeywords call is under way
KeywordIdle == kwTopic = "" /\ kwList = <<>> /\ keywordScore = <<0, 1>>

\* no lookupAlias call is under way
AliasIdle == objectiveB = "" /\ aliasA = JSNull /\ aliasB = JSNull

Init ==
    /\ pc = "ready"
    /\ \/ objective \in Objectives /\ availableTopics \in SeqsUpTo(TopicPool, MaxTopics)
       \/ objective \in RankedObjectives /\ availableTopics \in SeqsUpTo(RankedPool, MaxRanked)
    /\ result = NotCalled
    /\ useItemBank = FALSE
    /\ simA = "" /\ simB = "" /\ similarity = <<0, 1>>
    /\ AliasIdle
    /\ ServerIdle
    /\ HttpIdle
    /\ RecordIdle
    /\ KeywordIdle

\* match = matchTopic(objective, availableTopics)
CallMatchTopic ==
    /\ pc = "ready"
    /\ result' = matchTopic(objective, availableTopics)
    /\ pc' = "matched"
    /\ UNCHANGED <<objective, availableTopics, useItemBank, simA, simB, similarity>>
    /\ UNCHANGED aliasVars
    /\ UNCHANGED serverVars
    /\ UNCHANGED httpVars
    /\ UNCHANGED recordVars
    /\ UNCHANGED keywordVars

\* shouldUseItemBank(match), as every caller of matchTopic goes on to do
CallShouldUseItemBank ==
    /\ pc = "matched"
    /\ result.kind = "return"
    /\ useItemBank' = shouldUseItemBank(result.value)
    /\ pc' = "decided"
    /\ UNCHANGED <<objective, availableTopics, result, simA, simB, similarity>>
    /\ UNCHANGED aliasVars
    /\ UNCHANGED serverVars
    /\ UNCHANGED httpVars
    /\ UNCHANGED recordVars
    /\ UNCHANGED keywordVars

Next == CallMatchTopic \/ CallShouldUseItemBank

Spec == Init /\ [][Next]_vars

InitSim ==
    /\ pc = "sim-ready"
    /\ simA \in SimStrings
    /\ simB \in SimStrings
    /\ similarity = <<0, 1>>
    /\ objective = "" /\ availableTopics = <<>> /\ result = NotCalled /\ useItemBank = FALSE
    /\ AliasIdle
    /\ ServerIdle
    /\ HttpIdle
    /\ RecordIdle
    /\ KeywordIdle

CallCalculateSimilarity ==
    /\ pc = "sim-ready"
    /\ similarity' = calculateSimilarity(simA, simB)
    /\ pc' = "sim-done"
    /\ UNCHANGED <<objective, availableTopics, result, useItemBank, simA, simB>>
    /\ UNCHANGED aliasVars
    /\ UNCHANGED serverVars
    /\ UNCHANGED httpVars
    /\ UNCHANGED recordVars
    /\ UNCHANGED keywordVars

NextSim == CallCalculateSimilarity

SpecSim == InitSim /\ [][NextSim]_vars

\* two callers look one objective each up in the alias table
InitAlias ==
    /\ pc = "alias-ready"
    /\ objective \in AliasObjectives
    /\ objectiveB \in AliasObjectives
    /\ aliasA = JSNull /\ aliasB = JSNull
    /\ availableTopics = <<>> /\ result = NotCalled /\ useItemBank = FALSE
    /\ simA = "" /\ simB = "" /\ similarity = <<0, 1>>
    /\ ServerIdle
    /\ HttpIdle
    /\ RecordIdle
    /\ KeywordIdle

CallLookupAlias ==
    /\ pc = "alias-ready"
    /\ aliasA' = lookupAlias(objective)
    /\ aliasB' = lookupAlias(objectiveB)
    /\ pc' = "alias-done"
    /\ UNCHANGED <<objective, objectiveB, availableTopics, result, useItemBank,
                   simA, simB, similarity>>
    /\ UNCHANGED serverVars
    /\ UNCHANGED httpVars
    /\ UNCHANGED recordVars
    /\ UNCHANGED keywordVars

NextAlias == CallLookupAlias

SpecAlias == InitAlias /\ [][NextAlias]_vars

\* every key of the two alias tables is looked up in its own table: objective
\* is a key of the server, objectiveB a key of the website
InitAliasKeys ==
    /\ pc = "keys-ready"
    /\ objective \in DOMAIN TOPIC_ALIASES
    /\ objectiveB \in DOMAIN Website_TOPIC_ALIASES
    /\ aliasA = JSNull /\ aliasB = JSNull
    /\ availableTopics = <<>> /\ result = NotCalled /\ useItemBank = FALSE
    /\ simA = "" /\ simB = "" /\ similarity = <<0, 1>>
    /\ ServerIdle
    /\ HttpIdle
    /\ RecordIdle
    /\ KeywordIdle

CallLookupAliasKeys ==
    /\ pc = "keys-ready"
    /\ aliasA' = lookupAlias(objective)
    /\ aliasB' = Website_lookupAlias(objectiveB)
    /\ pc' = "keys-done"
    /\ UNCHANGED <<objective, objectiveB, availableTopics, result, useItemBank,
                   simA, simB, similarity>>
    /\ UNCHANGED <<store, requests, reply, call, generated, generatorCalls,
                   generationEnabled, ncalls>>
    /\ UNCHANGED <<kwTopic, kwList, keywordScore>>
    /\ UNCHANGED <<inflight, transport, connections, response>>

NextAliasKeys == CallLookupAliasKeys

SpecAliasKeys == InitAliasKeys /\ [][NextAliasKeys]_vars

\* the mcq_record calls that may be under way at once
MaxRecords == 2

\* the learner and the objective of the calls
RecordUser == "u1"
RecordObjective == "js-closures"

\* mcq_record calls for one learner and one objective, each taken through its
\* awaits: the handler of a request runs up to its next await, and another
\* request's handler may run before it resumes
InitRecord ==
    /\ pc = "recording"
    /\ store = [mcp |-> EmptyTables, rest |-> EmptyTables]
    /\ requests = [mcp |-> <<>>, rest |-> <<>>]
    /\ reply = [mcp |-> NoReply, rest |-> NoReply]
    /\ call = NoCall
    /\ generated = {}
    /\ generatorCalls = [mcp |-> 0, rest |-> 0]
    /\ generationEnabled = FALSE
    /\ ncalls = 0
    /\ inflight = <<>>
    /\ objective = "" /\ availableTopics = <<>> /\ result = NotCalled /\ useItemBank = FALSE
    /\ simA = "" /\ simB = "" /\ similarity = <<0, 1>>
    /\ AliasIdle
    /\ KeywordIdle
    /\ HttpIdle

\* what a step of a call leaves alone
RecordStepFrame ==
    /\ UNCHANGED <<pc, objective, availableTopics, result, useItemBank, simA, simB, similarity>>
    /\ UNCHANGED <<requests, generated, generatorCalls, generationEnabled>>
    /\ UNCHANGED aliasVars
    /\ UNCHANGED keywordVars
    /\ UNCHANGED httpVars

\* case "mcq_record": the call arrives; the handler computes wasCorrect and
\* the response record and sends the insert
RecordArrives ==
    /\ pc = "recording"
    /\ Len(inflight) < MaxRecords
    /\ \E selected \in {"a", "B"} :
           LET c == Call([name |-> "mcq_record", user_id |-> RecordUser,
                          objective |-> JSString(RecordObjective),
                          selected_answer |-> selected, correct_answer |-> "A"])
           IN /\ inflight' = Append(inflight,
                                    [at |-> "responses.insert", args |-> c,
                                     wasCorrect |-> toUpperCase(c.selected_answer)
                                                        = toUpperCase(c.correct_answer),
                                     correctCount |-> 0, totalCount |-> 0])
              /\ call' = c
    /\ ncalls' = ncalls + 1
    /\ UNCHANGED <<store, reply>>
    /\ RecordStepFrame

\* await supabase.from("responses").insert(responseRecord) completes; the
\* handler sends the select of the mastery row
RecordInsertResponse ==
    /\ pc = "recording"
    /\ \E k \in 1..Len(inflight) :
           /\ inflight[k].at = "responses.insert"
           /\ LET args == inflight[k].args
                  responseRecord ==
                      [user_id |-> args.user_id, objective |-> args.objective.value,
                       item_id |-> OrNull(args.item_id),
                       selected_answer |-> toUpperCase(args.selected_answer),
                       correct_answer |-> toUpperCase(args.correct_answer),
                       is_correct |-> inflight[k].wasCorrect]
              IN store' = [store EXCEPT !.rest.responses = Append(@, responseRecord)]
           /\ inflight' = [inflight EXCEPT ![k].at = "mastery.select"]
    /\ UNCHANGED <<reply, call, ncalls>>
    /\ RecordStepFrame

\* await supabase.from("mastery").select(...).single() completes; the handler
\* counts this answer in and sends the upsert
RecordSelectMastery ==
    /\ pc = "recording"
    /\ \E k \in 1..Len(inflight) :
           /\ inflight[k].at = "mastery.select"
           /\ LET args == inflight[k].args
                  existing == MasteryRow(store.rest, args.user_id, args.objective.value, "none")
                  correctCount == (IF existing = <<>> THEN 0 ELSE existing[1].correct)
                                      + (IF inflight[k].wasCorrect THEN 1 ELSE 0)
                  totalCount == (IF existing = <<>> THEN 0 ELSE existing[1].total) + 1
              IN inflight' = [inflight EXCEPT ![k].at = "mastery.upsert",
                                              ![k].correctCount = correctCount,
                                              ![k].totalCount = totalCount]
    /\ UNCHANGED <<store, reply, call, ncalls>>
    /\ RecordStepFrame

\* await supabase.from("mastery").upsert(...) completes; the handler returns
RecordUpsertMastery ==
    /\ pc = "recording"
    /\ \E k \in 1..Len(inflight) :
           /\ inflight[k].at = "mastery.upsert"
           /\ LET args == inflight[k].args
                  row == [user_id |-> args.user_id, objective |-> args.objective.value,
                          correct |-> inflight[k].correctCount,
                          total |-> inflight[k].totalCount]
              IN /\ store' = [store EXCEPT !.rest = UpsertMastery(@, row, "none")]
                 /\ reply' = [reply EXCEPT !.rest =
                                 Reply([correct |-> row.correct, total |-> row.total,
                                        response_logged |-> TRUE])]
           /\ inflight' = [inflight EXCEPT ![k].at = "returned"]
    /\ UNCHANGED <<call, ncalls>>
    /\ RecordStepFrame

NextRecord ==
    \/ RecordArrives
    \/ RecordInsertResponse
    \/ RecordSelectMastery
    \/ RecordUpsertMastery

SpecRecord == InitRecord /\ [][NextRecord]_vars

\* the /sse connections the server takes
MaxConnections == 2

\* the clients of the HTTP server
Clients == {"c1", "c2", "c3"}

\* the requests of the other routes, each with a status the server answers:
\* the preflight, the health check, a tool call of the REST interface (well
\* formed, without name or arguments, failing) and an unknown path
OtherRequests ==
    {[method |-> "OPTIONS", url |-> "/messages", status |-> 204],
     [method |-> "GET", url |-> "/", status |-> 200],
     [method |-> "POST", url |-> "/api/tools/call", status |-> 200],
     [method |-> "POST", url |-> "/api/tools/call", status |-> 400],
     [method |-> "POST", url |-> "/api/tools/call", status |-> 500],
     [method |-> "GET", url |-> "/messages", status |-> 404]}

\* main with --http: the request handler of createServer
InitHttp ==
    /\ pc = "listening"
    /\ transport = 0
    /\ connections = <<>>
    /\ response = NoResponse
    /\ objective = "" /\ availableTopics = <<>> /\ result = NotCalled /\ useItemBank = FALSE
    /\ simA = "" /\ simB = "" /\ similarity = <<0, 1>>
    /\ AliasIdle
    /\ ServerIdle
    /\ KeywordIdle
    /\ RecordIdle

\* what a request leaves alone
HttpFrame ==
    /\ UNCHANGED <<pc, objective, availableTopics, result, useItemBank, simA, simB, similarity>>
    /\ UNCHANGED aliasVars
    /\ UNCHANGED serverVars
    /\ UNCHANGED keywordVars
    /\ UNCHANGED recordVars

\* GET /sse: transport = new SSEServerTransport("/messages", res); the event
\* stream stays open
HttpSse ==
    /\ pc = "listening"
    /\ Len(connections) < MaxConnections
    /\ \E client \in Clients :
           /\ connections' = Append(connections, client)
           /\ transport' = Len(connections')
           /\ response' = [client |-> client, method |-> "GET", url |-> "/sse",
                           status |-> 200, handledBy |-> 0]
    /\ HttpFrame

\* POST /messages: transport.handlePostMessage(req, res, body) if transport is
\* set, 500 if that throws, 400 if transport is null
HttpMessages ==
    /\ pc = "listening"
    /\ \E client \in Clients, throws \in BOOLEAN :
           response' =
               IF transport # 0
               THEN [client |-> client, method |-> "POST", url |-> "/messages",
                     status |-> IF throws THEN 500 ELSE 202, handledBy |-> transport]
               ELSE [client |-> client, method |-> "POST", url |-> "/messages",
                     status |-> 400, handledBy |-> 0]
    /\ UNCHANGED <<transport, connections>>
    /\ HttpFrame

\* OPTIONS, the health check, /api/tools/call, and the paths the server does
\* not know
HttpOther ==
    /\ pc = "listening"
    /\ \E client \in Clients, request \in OtherRequests :
           response' = [client |-> client, method |-> request.method, url |-> request.url,
                        status |-> request.status, handledBy |-> 0]
    /\ UNCHANGED <<transport, connections>>
    /\ HttpFrame

NextHttp ==
    \/ HttpSse
    \/ HttpMessages
    \/ HttpOther

SpecHttp == InitHttp /\ [][NextHttp]_vars

\* topicContainsKeywords on a topic and a list of keywords
InitKeywords ==
    /\ pc = "keywords-ready"
    /\ kwTopic \in KeywordTopics
    /\ kwList \in SeqsUpTo(KeywordPool, MaxKeywords)
    /\ keywordScore = <<0, 1>>
    /\ objective = "" /\ availableTopics = <<>> /\ result = NotCalled /\ useItemBank = FALSE
    /\ simA = "" /\ simB = "" /\ similarity = <<0, 1>>
    /\ AliasIdle
    /\ ServerIdle
    /\ HttpIdle
    /\ RecordIdle

CallTopicContainsKeywords ==
    /\ pc = "keywords-ready"
    /\ keywordScore' = topicContainsKeywords(kwTopic, kwList)
    /\ pc' = "keywords-done"
    /\ UNCHANGED <<kwTopic, kwList>>
    /\ UNCHANGED <<objective, availableTopics, result, useItemBank, simA, simB, similarity>>
    /\ UNCHANGED aliasVars
    /\ UNCHANGED serverVars
    /\ UNCHANGED httpVars
    /\ UNCHANGED recordVars

NextKeywords == CallTopicContainsKeywords

SpecKeywords == InitKeywords /\ [][NextKeywords]_vars

\* The server: every tool call is made through both interfaces, each on its
\* own copy of the database, in the same surroundings.
InitServer ==
    /\ pc = "serving"
    /\ \E tables \in InitialTables : store = [mcp |-> tables, rest |-> tables]
    /\ requests = [mcp |-> <<>>, rest |-> <<>>]
    /\ reply = [mcp |-> NoReply, rest |-> NoReply]
    /\ call = NoCall
    /\ generated = {}
    /\ generatorCalls = [mcp |-> 0, rest |-> 0]
    /\ generationEnabled \in BOOLEAN
    /\ ncalls = 0
    /\ objective = "" /\ availableTopics = <<>> /\ result = NotCalled /\ useItemBank = FALSE
    /\ simA = "" /\ simB = "" /\ similarity = <<0, 1>>
    /\ AliasIdle
    /\ HttpIdle
    /\ RecordIdle
    /\ KeywordIdle

\* the server is up and takes another call
Serving == pc = "serving" /\ ncalls < MaxCalls

\* the call c with the outcomes of its two handlers
Serve(c, mcp, rest) ==
    /\ ncalls' = ncalls + 1
    /\ call' = c
    /\ store' = [mcp |-> mcp.tables, rest |-> rest.tables]
    /\ requests' = [mcp |-> mcp.requests, rest |-> rest.requests]
    /\ reply' = [mcp |-> mcp.reply, rest |-> rest.reply]
    /\ generatorCalls' = [mcp |-> mcp.generatorCalls, rest |-> rest.generatorCalls]
    /\ generated' =
          IF c.name = "mcq_generate" /\ mcp.reply.source = "ai-generated"
          THEN generated \cup {<<normalizeObjective(c.objective.value), c.difficulty>>}
          ELSE generated
    /\ UNCHANGED <<pc, generationEnabled>>
    /\ UNCHANGED <<useItemBank, simA, simB, similarity>>
    /\ UNCHANGED aliasVars
    /\ UNCHANGED httpVars
    /\ UNCHANGED recordVars
    /\ UNCHANGED keywordVars

\* const match = matchTopic(objective, Array.from(allTopics)), the first
\* statement of mcq_generate and mcq_match_topic in both interfaces
MatchAgainstBank(obj) ==
    /\ objective' = obj
    /\ availableTopics' = allTopics
    /\ result' = matchTopic(objective', availableTopics')

CallListTopics ==
    /\ Serving
    /\ Serve(Call([name |-> "mcq_list_topics"]),
             McpListTopics(store.mcp), RestListTopics(store.rest))
    /\ UNCHANGED <<objective, availableTopics, result>>

CallGenerate ==
    /\ Serving
    /\ \E user \in Users, obj \in ServerObjectives, difficulty \in Difficulties,
          fail \in {"none", "generated_items.select"}, random \in Randoms,
          generatorThrows \in BOOLEAN :
           LET c == Call([name |-> "mcq_generate", user_id |-> user,
                          objective |-> JSString(obj), difficulty |-> difficulty])
               env == Env(fail, random, generatorThrows)
           IN /\ MatchAgainstBank(obj)
              /\ Serve(c, McpGenerate(store.mcp, c, env, generationEnabled, result'),
                          RestGenerate(store.rest, c, env, generationEnabled, result'))

CallMatchTopicTool ==
    /\ Serving
    /\ \E obj \in ServerObjectives :
           LET c == Call([name |-> "mcq_match_topic", objective |-> JSString(obj)])
           IN /\ MatchAgainstBank(obj)
              /\ Serve(c, McpMatchTopic(store.mcp, c, result'),
                          RestMatchTopic(store.rest, c, result'))

CallAddItem ==
    /\ Serving
    /\ \E obj \in ServerObjectives, difficulty \in Difficulties,
          source \in {JSUndefined, JSString("user-submitted")} :
           LET c == Call([name |-> "mcq_add_item", objective |-> JSString(obj),
                          difficulty |-> difficulty, source |-> source])
               env == Env("none", <<0, 1>>, FALSE)
           IN /\ Serve(c, McpAddItem(store.mcp, c, env), RestAddItem(store.rest, c, env))
              /\ UNCHANGED <<objective, availableTopics, result>>

CallRecord ==
    /\ Serving
    /\ \E user \in Users, obj \in ServerObjectives, selected \in {"a", "B"},
          item_id \in {JSUndefined, JSString("js-closures-001"), JSString("gen-k3x9q")},
          fail \in {"none", "responses.insert", "mastery.select", "mastery.upsert"} :
           LET c == Call([name |-> "mcq_record", user_id |-> user, objective |-> JSString(obj),
                          selected_answer |-> selected, correct_answer |-> "A",
                          item_id |-> item_id])
               env == Env(fail, <<0, 1>>, FALSE)
           IN /\ Serve(c, McpRecord(store.mcp, c, env), RestRecord(store.rest, c, env))
              /\ UNCHANGED <<objective, availableTopics, result>>

CallGetStatus ==
    /\ Serving
    /\ \E user \in Users,
          obj \in {JSUndefined} \cup {JSString(o) : o \in ServerObjectives},
          fail \in {"none", "mastery.select"} :
           LET c == Call([name |-> "mcq_get_status", user_id |-> user, objective |-> obj])
               env == Env(fail, <<0, 1>>, FALSE)
           IN /\ Serve(c, McpGetStatus(store.mcp, c, env), RestGetStatus(store.rest, c, env))
              /\ UNCHANGED <<objective, availableTopics, result>>

NextServer ==
    \/ CallListTopics
    \/ CallGenerate
    \/ CallMatchTopicTool
    \/ CallAddItem
    \/ CallRecord
    \/ CallGetStatus

SpecServer == InitServer /\ [][NextServer]_vars

-----------------------------------------------------------------------------
(* Properties of matchTopic *)

Called == pc \in {"matched", "decided"}
Returned == Called /\ result.kind = "return"

LoweredTopics == {toLowerCase(availableTopics[i]) : i \in 1..Len(availableTopics)}

\* the first element of availableTopics that equals t when both are lowercased
FirstTopicLike(t) ==
    availableTopics[CHOOSE i \in 1..Len(availableTopics) :
        /\ toLowerCase(availableTopics[i]) = toLowerCase(t)
        /\ \A k \in 1..(i - 1) : toLowerCase(availableTopics[k]) # toLowerCase(t)]

\* the objective is one of the topics, letter case aside and with a hyphen
\* in the topic where the objective has whitespace
AppearsVerbatim ==
    \/ toLowerCase(objective) \in LoweredTopics
    \/ ReplaceSpaceRuns(toLowerCase(objective), "-") \in LoweredTopics

\* C1: a non-empty objective that appears verbatim in availableTopics
\* (case-insensitively, hyphen-insensitively) is matched as exact with
\* confidence 1.0 and that topic.
C1_VerbatimIsExact ==
    (Called /\ objective # "" /\ AppearsVerbatim) =>
        /\ result.kind = "return"
        /\ result.value.matchType = "exact"
        /\ result.value.confidence = <<1, 1>>
        /\ result.value.topic.type = "string"
        /\ toLowerCase(result.value.topic.value)
              \in {toLowerCase(objective), ReplaceSpaceRuns(toLowerCase(objective), "-")}

\* the objective normalizes to a key of the alias table whose topic is in
\* availableTopics, case-insensitively
AliasApplies ==
    /\ normalizeForAlias(objective) \in DOMAIN TOPIC_ALIASES
    /\ toLowerCase(TOPIC_ALIASES[normalizeForAlias(objective)]) \in LoweredTopics

\* neither the normalized objective nor its hyphenated form is a topic
NoExactHit ==
    /\ normalizeForAlias(objective) \notin LoweredTopics
    /\ ReplaceSpaceRuns(normalizeForAlias(objective), "-") \notin LoweredTopics

IsAliasResult ==
    /\ result.kind = "return"
    /\ result.value.matchType = "alias"
    /\ result.value.confidence = <<19, 20>>
    /\ result.value.topic =
          JSString(FirstTopicLike(TOPIC_ALIASES[normalizeForAlias(objective)]))

AliasInTopics ==
    /\ lookupAlias(objective).type = "string"
    /\ toLowerCase(lookupAlias(objective).value) \in LoweredTopics

\* C3: when lookupAlias(objective) gives a topic that is in availableTopics,
\* matchTopic never returns fuzzy, keyword or none, also when another topic
\* fuzzy-matches the objective with a score of 0.7 or more.
C3_AliasBeforeFuzzy ==
    (Called /\ AliasInTopics) =>
        /\ result.kind = "return"
        /\ result.value.matchType \in {"exact", "alias"}

\* an alias hit with a competing topic whose fuzzy score is at least 0.7
C3_Witness ==
    /\ Called /\ AliasInTopics
    /\ result.value.matchType = "alias"
    /\ \E i \in 1..Len(availableTopics) :
          /\ toLowerCase(availableTopics[i]) # toLowerCase(result.value.topic.value)
          /\ RatGeq(FuzzyScore(normalizeForAlias(objective), availableTopics[i]), <<7, 10>>)

IsRational(q) == q[1] \in Int /\ q[2] \in Nat \ {0}

WellFormed(m) ==
    /\ m.matchType \in {"exact", "alias", "fuzzy", "keyword", "none"}
    /\ m.topic.type \in {"string", "null"}
    /\ IsRational(m.confidence)
    /\ m.hasAlternatives =>
          \A i \in 1..Len(m.alternatives) : IsRational(m.alternatives[i].confidence)

\* C4: matchTopic is total: for every objective and every topic list it
\* returns a well-formed MatchResult and never raises.
C4_Total == Called => (result.kind = "return" /\ WellFormed(result.value))

\* C5: the confidence of every returned MatchResult is in [0,1], and it is 0
\* if and only if matchType is none and topic is null.
C5_ConfidenceRange ==
    Returned =>
        /\ RatGeq(result.value.confidence, <<0, 1>>)
        /\ RatGeq(<<1, 1>>, result.value.confidence)
        /\ (result.value.confidence = <<0, 1>>)
              <=> (result.value.matchType = "none" /\ result.value.topic = JSNull)

\* no stage matched a non-blank objective against a non-empty topic list
C5_Witness ==
    /\ Returned
    /\ trim(objective) # "" /\ Len(availableTopics) = 2
    /\ result.value.matchType = "none" /\ result.value.confidence = <<0, 1>>

Alternatives == result.value.alternatives

\* C6 as stated: returned alternatives are in strictly descending order of
\* confidence and there are at most 3 of them.
C6_AlternativesStrictlyDescending ==
    (Returned /\ result.value.hasAlternatives) =>
        /\ Len(Alternatives) <= 3
        /\ \A i \in 1..(Len(Alternatives) - 1) :
              RatLt(Alternatives[i + 1].confidence, Alternatives[i].confidence)

\* C6 as amended: returned alternatives are in descending order of
\* confidence, equal confidences allowed, and there are at most 3 of them.
C6_AlternativesDescending ==
    (Returned /\ result.value.hasAlternatives) =>
        /\ Len(Alternatives) <= 3
        /\ \A i \in 1..(Len(Alternatives) - 1) :
              RatGeq(Alternatives[i].confidence, Alternatives[i + 1].confidence)

\* three alternatives of different confidences, cut from more candidates
C6_Witness ==
    /\ Returned /\ result.value.hasAlternatives
    /\ Len(availableTopics) >= 5
    /\ Len(Alternatives) = 3
    /\ RatLt(Alternatives[3].confidence, Alternatives[1].confidence)

\* C7: the alternatives never contain the primary matched topic, also for
\* topic lists with duplicate entries.
C7_AlternativesExcludePrimary ==
    (Returned /\ result.value.hasAlternatives) =>
        \A i \in 1..Len(Alternatives) : Alternatives[i].topic # result.value.topic.value

\* C8: shouldUseItemBank(match) is true if and only if match.topic is
\* present and match.confidence >= 0.6; it is false for every result of
\* matchType none.
C8_ShouldUseItemBank ==
    (pc = "decided") =>
        /\ useItemBank <=> (result.value.topic.type = "string"
                              /\ RatGeq(result.value.confidence, <<6, 10>>))
        /\ (result.value.matchType = "none") => ~useItemBank

\* a keyword match that clears the threshold
C8_Witness ==
    /\ pc = "decided"
    /\ result.value.matchType = "keyword"
    /\ useItemBank

\* C10: calculateSimilarity(a, b) = calculateSimilarity(b, a).
C10_SimilaritySymmetric ==
    (pc = "sim-done") => similarity = calculateSimilarity(simB, simA)

\* two strings of different lengths that share some characters
C10_Witness ==
    /\ pc = "sim-done"
    /\ Len(simA) < Len(simB)
    /\ RatLt(<<0, 1>>, similarity) /\ RatLt(similarity, <<1, 1>>)

\* the objective is "probability and dice games" and math-probability is
\* one of the topics
DiceGames ==
    /\ objective = "probability and dice games"
    /\ \E i \in 1..Len(availableTopics) : availableTopics[i] = "math-probability"

\* the keyword overlap ratio of math-probability for the objective
DiceOverlap == topicContainsKeywords("math-probability", extractKeywords(objective))

\* C11 as stated: "probability and dice games" with math-probability among
\* the topics is matched as keyword, topic math-probability, confidence =
\* overlap ratio x 0.8, the overlap ratio being at least 0.5.
C11_DiceGamesIsKeyword ==
    (Called /\ DiceGames) =>
        /\ result.kind = "return"
        /\ result.value.matchType = "keyword"
        /\ result.value.topic = JSString("math-probability")
        /\ result.value.confidence = RatMul(DiceOverlap, <<4, 5>>)
        /\ RatGeq(DiceOverlap, <<1, 2>>)

\* C11 as amended: the overlap ratio of math-probability is 1/3, so it is
\* never returned as a keyword match; when it is the only topic the result
\* is the low-confidence fuzzy match, confidence 0.7 x 11/26.
C11_DiceGamesIsFallback ==
    (Called /\ DiceGames) =>
        /\ result.kind = "return"
        /\ DiceOverlap = <<1, 3>>
        /\ ~(result.value.matchType = "keyword"
                /\ result.value.topic = JSString("math-probability"))
        /\ (\A i \in 1..Len(availableTopics) : availableTopics[i] = "math-probability") =>
                /\ result.value.matchType = "fuzzy"
                /\ result.value.topic = JSString("math-probability")
                /\ result.value.confidence = RatMul(<<7, 10>>, <<11, 26>>)

\* math-probability alone in the list
C11_Witness ==
    /\ Called /\ DiceGames
    /\ availableTopics = <<"math-probability">>
    /\ result.value.matchType = "fuzzy"
    /\ ~RatGeq(result.value.confidence, MATCH_THRESHOLD)

-----------------------------------------------------------------------------
(* Properties of lookupAlias *)

\* punctuation characters other than hyphen and forward slash
PunctuationChars == {"!", "?", ".", ",", ";", ":", "'", "(", ")", "+"}

RECURSIVE RemovePunctuation(_)
RemovePunctuation(s) ==
    IF s = "" THEN ""
    ELSE (IF CharAt(s, 1) \in PunctuationChars THEN "" ELSE CharAt(s, 1))
            \o RemovePunctuation(Tail(s))

\* two objectives differ only in letter case, in whitespace at the ends and
\* in punctuation
DifferOnlyInCasePunctuation(a, b) ==
    trim(toLowerCase(RemovePunctuation(a))) = trim(toLowerCase(RemovePunctuation(b)))

\* C12: two objectives that differ only in letter case, in leading or
\* trailing whitespace, or in punctuation other than hyphen and forward
\* slash get the same lookupAlias result.
C12_AliasLookupInsensitive ==
    (pc = "alias-done" /\ DifferOnlyInCasePunctuation(objective, objectiveB)) =>
        aliasA = aliasB


\* the per-topic best score of the i-th topic
ScoreOf(i) == FuzzyScore(normalizeForAlias(objective), availableTopics[i])

\* the i-th topic has the highest score of the list
IsTopScore(i) == \A k \in 1..Len(availableTopics) : RatGeq(ScoreOf(i), ScoreOf(k))

\* C16: a result of matchType fuzzy names a topic with the highest per-topic
\* best score s, with confidence s when s >= 0.7 and 0.7 x s when
\* 0.4 <= s < 0.7; "JavaScript Closures" against js-closures is fuzzy with
\* confidence >= 0.7.
C16_FuzzyIsTopRanked ==
    /\ (Returned /\ result.value.matchType = "fuzzy") =>
          \E i \in 1..Len(availableTopics) :
             /\ IsTopScore(i)
             /\ result.value.topic = JSString(availableTopics[i])
             /\ RatGeq(ScoreOf(i), <<2, 5>>)
             /\ result.value.confidence =
                   IF RatGeq(ScoreOf(i), <<7, 10>>) THEN ScoreOf(i)
                   ELSE RatMul(<<7, 10>>, ScoreOf(i))
    /\ (Called /\ objective = "JavaScript Closures"
          /\ \E i \in 1..Len(availableTopics) : availableTopics[i] = "js-closures") =>
          /\ result.kind = "return"
          /\ result.value.matchType = "fuzzy"
          /\ RatGeq(result.value.confidence, <<7, 10>>)

\* a low-confidence fuzzy result chosen among topics of different scores
C16_Witness ==
    /\ Returned /\ result.value.matchType = "fuzzy"
    /\ RatLt(result.value.confidence, <<7, 10>>)
    /\ \E i, k \in 1..Len(availableTopics) : RatLt(ScoreOf(i), ScoreOf(k))


-----------------------------------------------------------------------------
(* Properties of calculateSimilarity *)

\* the Levenshtein distance by its recurrence: substitution, insertion and
\* deletion cost 1 each
RECURSIVE ReferenceDistance(_, _)
ReferenceDistance(a, b) ==
    IF a = "" THEN Len(b)
    ELSE IF b = "" THEN Len(a)
    ELSE IF CharAt(a, 1) = CharAt(b, 1) THEN ReferenceDistance(Tail(a), Tail(b))
    ELSE 1 + Min3(ReferenceDistance(Tail(a), Tail(b)),
                  ReferenceDistance(a, Tail(b)),
                  ReferenceDistance(Tail(a), b))

\* C17: calculateSimilarity(a, b) = 1 - d / max(|a|, |b|) with d the
\* Levenshtein distance of the lowercased strings; it is in [0,1], it is 1
\* when both strings are empty and it is 1 for a = b.
C17_SimilarityIsNormalizedDistance ==
    (pc = "sim-done") =>
        LET d == ReferenceDistance(toLowerCase(simA), toLowerCase(simB))
            m == Max2(Len(simA), Len(simB))
        IN /\ m > 0 => similarity = Rat(m - d, m)
           /\ RatGeq(similarity, <<0, 1>>) /\ RatGeq(<<1, 1>>, similarity)
           /\ (simA = "" /\ simB = "") => similarity = <<1, 1>>
           /\ (simA = simB) => similarity = <<1, 1>>


-----------------------------------------------------------------------------
(* Properties of the keyword stage and of the result none *)

\* lookupAlias(objective) gives nothing
NoAlias == ~Truthy(lookupAlias(objective))

\* no topic has a per-topic best score of 0.7 or more
NoFuzzyHit == \A i \in 1..Len(availableTopics) : RatLt(ScoreOf(i), <<7, 10>>)

\* the keyword overlap score of a topic for the original objective
KeywordScoreOf(topic) == topicContainsKeywords(topic, extractKeywords(objective))

\* the i-th topic has the highest keyword overlap score of the list
IsTopKeywordScore(i) ==
    \A k \in 1..Len(availableTopics) :
        RatGeq(KeywordScoreOf(availableTopics[i]), KeywordScoreOf(availableTopics[k]))

\* the keyword stage is reached: the objective is not blank and the exact,
\* alias and fuzzy stages have not returned
KeywordStageReached ==
    /\ trim(objective) # ""
    /\ NoExactHit
    /\ NoAlias \/ (lookupAlias(objective).type = "string" /\ ~AliasInTopics)
    /\ NoFuzzyHit

\* C18: the keyword stage is reached only without an exact or alias hit and
\* with the best fuzzy score below 0.7; there a best keyword overlap score
\* >= 0.5 gives matchType keyword with confidence 0.8 x that score and
\* alternatives discounted by 0.8, also when a fuzzy candidate scores in
\* [0.4, 0.7).
C18_KeywordStage ==
    /\ (Returned /\ result.value.matchType = "keyword") => KeywordStageReached
    /\ (Called /\ KeywordStageReached
          /\ \E i \in 1..Len(availableTopics) :
                RatGeq(KeywordScoreOf(availableTopics[i]), <<1, 2>>)) =>
          /\ result.kind = "return"
          /\ result.value.matchType = "keyword"
          /\ \E i \in 1..Len(availableTopics) :
                /\ IsTopKeywordScore(i)
                /\ result.value.topic = JSString(availableTopics[i])
                /\ result.value.confidence =
                      RatMul(<<4, 5>>, KeywordScoreOf(availableTopics[i]))
          /\ result.value.hasAlternatives
          /\ \A k \in 1..Len(Alternatives) :
                Alternatives[k].confidence =
                    RatMul(<<4, 5>>, KeywordScoreOf(Alternatives[k].topic))

\* a keyword match, with an alternative, preferred to a fuzzy candidate
\* that scores in [0.4, 0.7)
C18_Witness ==
    /\ Returned /\ result.value.matchType = "keyword"
    /\ Len(Alternatives) >= 1
    /\ \E i \in 1..Len(availableTopics) : RatGeq(ScoreOf(i), <<2, 5>>)


\* the result {topic: null, confidence: 0, matchType: 'none'}
IsNone ==
    /\ result.kind = "return"
    /\ result.value.topic = JSNull
    /\ result.value.confidence = <<0, 1>>
    /\ result.value.matchType = "none"

\* no stage clears its bar: no exact hit, no alias hit in the topic list,
\* every fuzzy score below 0.4 and every keyword overlap score below 0.5
NoStageClears ==
    /\ NoExactHit
    /\ ~AliasInTopics
    /\ \A i \in 1..Len(availableTopics) : RatLt(ScoreOf(i), <<2, 5>>)
    /\ \A i \in 1..Len(availableTopics) :
          RatLt(KeywordScoreOf(availableTopics[i]), <<1, 2>>)

\* C19: matchTopic returns {topic absent, confidence 0, matchType none}
\* exactly when the objective is empty or whitespace-only, or no stage
\* clears its bar.
C19_NoneExactly ==
    Called => (IsNone <=> (trim(objective) = "" \/ NoStageClears))


-----------------------------------------------------------------------------
(* Properties of the rankings *)

FuzzyScores == [i \in 1..Len(availableTopics) |-> ScoreOf(i)]
KeywordScores == [i \in 1..Len(availableTopics) |-> KeywordScoreOf(availableTopics[i])]

\* the place of the i-th topic in a ranking by descending score in which
\* topics of equal score keep the order of availableTopics
RankPosition(scores, i) ==
    1 + Cardinality({k \in DOMAIN scores : RatLt(scores[i], scores[k])})
      + Cardinality({k \in 1..(i - 1) : scores[k] = scores[i]})

TopicAtRank(scores, r) ==
    availableTopics[CHOOSE i \in DOMAIN scores : RankPosition(scores, i) = r]

\* the scores of the ranking the result was taken from
RankingScores == IF result.value.matchType = "keyword" THEN KeywordScores ELSE FuzzyScores

\* C20: among topics of the same score in the fuzzy or in the keyword
\* ranking, the first of availableTopics is returned as the match and the
\* others keep their availableTopics order among the alternatives.
C20_TiesKeepCallerOrder ==
    (Returned /\ result.value.hasAlternatives) =>
        /\ result.value.topic = JSString(TopicAtRank(RankingScores, 1))
        /\ \A k \in 1..Len(Alternatives) :
              Alternatives[k].topic = TopicAtRank(RankingScores, k + 1)

\* three different topics of one score: the first is the match, the other
\* two follow in the order of availableTopics
C20_Witness ==
    /\ Returned /\ result.value.hasAlternatives
    /\ Len(Alternatives) >= 2
    /\ \E i, j, k \in 1..Len(availableTopics) :
          /\ i < j /\ j < k
          /\ RankingScores[i] = RankingScores[j] /\ RankingScores[j] = RankingScores[k]
          /\ availableTopics[i] # availableTopics[j]
          /\ availableTopics[j] # availableTopics[k]
          /\ availableTopics[i] # availableTopics[k]
          /\ result.value.topic = JSString(availableTopics[i])
          /\ Alternatives[1].topic = availableTopics[j]
          /\ Alternatives[2].topic = availableTopics[k]


-----------------------------------------------------------------------------
(* Properties of the server: the two interfaces, the cache, the scores *)

\* what a reply says the tool decided: whether it threw, where the item came
\* from and which, the topic matched and whether the bank is used
Decision(r) ==
    [threw |-> r.threw, source |-> r.source, item_id |-> r.item_id,
     will_use_item_bank |-> r.will_use_item_bank]

\* C13: for every tool name and every argument set, handleToolCall (REST)
\* makes the same matching decision and the same storage reads and writes
\* (responses, mastery, generated_items rows and their field values) as the
\* MCP handler of that name.
C13_InterfacesAgree ==
    /\ Decision(reply.rest) = Decision(reply.mcp)
    /\ requests.rest = requests.mcp
    /\ store.rest = store.mcp

\* C14: once mcq_generate has generated an item for an objective and a
\* difficulty, every later mcq_generate call with the same normalized
\* objective and the same difficulty that is not served from the curated bank
\* returns a stored item with source ai-generated-cached and does not invoke
\* the generator again.
C14_GeneratedItemsAreReused ==
    [][(/\ ncalls' = ncalls + 1
        /\ call'.name = "mcq_generate"
        /\ <<normalizeObjective(call'.objective.value), call'.difficulty>> \in generated
        /\ reply'.mcp.source # "curated")
       => (/\ reply'.mcp.source = "ai-generated-cached"
           /\ generatorCalls'.mcp = 0)]_vars

\* C15: the correct/total score mcq_record reports for (user_id, objective)
\* equals the mastery row an immediately following mcq_get_status for the
\* same (user_id, objective) returns, and that call never returns no_data.
C15_RecordedScoreIsStatus ==
    [][(/\ ncalls' = ncalls + 1
        /\ call.name = "mcq_record"
        /\ call'.name = "mcq_get_status"
        /\ call'.user_id = call.user_id
        /\ call'.objective = call.objective)
       => (/\ reply'.mcp.status # "no_data"
           /\ reply'.mcp.correct = reply.mcp.correct
           /\ reply'.mcp.total = reply.mcp.total)]_vars


-----------------------------------------------------------------------------
(* Properties of normalizeForAlias *)

\* only lowercase letters, digits, single spaces, hyphens and slashes, no
\* whitespace at either end and no run of whitespace
IsNormalForm(s) ==
    /\ \A i \in 1..Len(s) :
          \/ PosIn(CharAt(s, i), LowerLetters) > 0
          \/ PosIn(CharAt(s, i), DigitChars) > 0
          \/ CharAt(s, i) \in {" ", "-", "/"}
    /\ trim(s) = s
    /\ \A i \in 1..(Len(s) - 1) : ~(IsSpaceChar(CharAt(s, i)) /\ IsSpaceChar(CharAt(s, i + 1)))

\* C21: the output of the normalizer is in normal form for every input, and
\* normalize(normalize(x)) = normalize(x).
C21_NormalizerNormalForm ==
    pc = "alias-done" =>
        /\ IsNormalForm(normalizeForAlias(objective))
        /\ normalizeForAlias(normalizeForAlias(objective)) = normalizeForAlias(objective)


-----------------------------------------------------------------------------
(* Properties of topicContainsKeywords *)

\* x occurs in y
OccursIn(x, y) == \E i \in 1..(Len(y) + 1), j \in 0..Len(y) : SubSeq(y, i, j) = x

\* the hyphen-separated parts of the lowercased topic: the pieces without a
\* hyphen that begin at the start or after a hyphen and end at the end or
\* before a hyphen
PartsOfTopic ==
    LET t == toLowerCase(kwTopic) IN
    {SubSeq(t, i, j) : <<i, j>> \in
        {<<i, j>> \in (1..(Len(t) + 1)) \X (0..Len(t)) :
            /\ j >= i - 1
            /\ \A k \in i..j : CharAt(t, k) # "-"
            /\ i = 1 \/ CharAt(t, i - 1) = "-"
            /\ j = Len(t) \/ CharAt(t, j + 1) = "-"}}

KeywordMatched(keyword) ==
    \E part \in PartsOfTopic : OccursIn(keyword, part) \/ OccursIn(part, keyword)

\* C22: topicContainsKeywords returns matched/total, where a keyword is
\* matched when some hyphen-separated part of the topic contains it or is
\* contained in it; the result is in [0,1], each keyword counts at most once,
\* and the score is 0 when the keyword list is empty.
C22_KeywordScore ==
    pc = "keywords-done" =>
        LET matched == Cardinality({k \in 1..Len(kwList) : KeywordMatched(kwList[k])}) IN
        /\ IsRational(keywordScore)
        /\ RatGeq(keywordScore, <<0, 1>>) /\ RatGeq(<<1, 1>>, keywordScore)
        /\ kwList = <<>> => keywordScore = <<0, 1>>
        /\ kwList # <<>> => keywordScore[1] * Len(kwList) = matched * keywordScore[2]

\* two of three keywords matched, one of them by both parts of the topic
C22_Witness ==
    /\ pc = "keywords-done"
    /\ Len(kwList) = 3
    /\ keywordScore = <<2, 3>>
    /\ \E k \in 1..Len(kwList) :
          Cardinality({p \in 1..Len(SplitHyphen(toLowerCase(kwTopic))) :
              Includes(SplitHyphen(toLowerCase(kwTopic))[p], kwList[k])}) = 2


-----------------------------------------------------------------------------
(* Properties of mcq_generate *)

\* the match is good enough and the bank has items for the matched topic
BankServes(m) ==
    /\ shouldUseItemBank(m)
    /\ Truthy(m.topic)
    /\ Len(itemsByTopic(toLowerCase(m.topic.value))) > 0

\* generated_items has a row with this id
IsStored(tables, id) ==
    \E i \in 1..Len(tables.generated_items) : tables.generated_items[i].id = id

\* C23: mcq_generate returns a curated item only when shouldUseItemBank(match)
\* holds and the bank has items for the matched topic (then no cache read, no
\* generator call, no storage write); otherwise a cached generated item;
\* otherwise, only if generation is enabled, a newly generated item that is
\* stored before it is returned; with generation disabled or failing it
\* returns an error and stores nothing.
C23_GenerateSourceOrder ==
    [][(ncalls' = ncalls + 1 /\ call'.name = "mcq_generate" /\ result'.kind = "return") =>
        LET m == result'.value
            answer == reply'.mcp
        IN /\ answer.source = "curated" <=> BankServes(m)
           /\ answer.source = "curated" =>
                 /\ requests'.mcp = <<>>
                 /\ generatorCalls'.mcp = 0
                 /\ store'.mcp = store.mcp
           /\ answer.source = "ai-generated-cached" =>
                 /\ IsStored(store.mcp, answer.item_id)
                 /\ generatorCalls'.mcp = 0
           /\ answer.source = "ai-generated" =>
                 /\ generationEnabled
                 /\ generatorCalls'.mcp = 1
                 /\ IsStored(store'.mcp, answer.item_id)
           /\ answer.source = "" =>
                 /\ answer.error \in {"no_match_generation_disabled", "generation_failed"}
                 /\ answer.error = "no_match_generation_disabled" <=> ~generationEnabled
                 /\ store'.mcp = store.mcp
           /\ ~generationEnabled => generatorCalls'.mcp = 0]_vars


-----------------------------------------------------------------------------
(* Properties of the values lookupAlias returns *)

AliasTopics == {TOPIC_ALIASES[key] : key \in DOMAIN TOPIC_ALIASES}

\* C24: for every string input, lookupAlias returns either null or a topic
\* identifier that is a value of the alias table; an input that normalizes to
\* a name every JavaScript object inherits is a miss.
C24_LookupAliasTopicOrNull ==
    pc = "alias-done" =>
        /\ aliasA = JSNull \/ (aliasA.type = "string" /\ aliasA.value \in AliasTopics)
        /\ normalizeForAlias(objective) \in InheritedProperties => aliasA = JSNull


-----------------------------------------------------------------------------
(* Properties of the topics matchTopic returns *)

\* the caller gave this topic, in this spelling
IsCallersTopic(t) == \E i \in 1..Len(availableTopics) : availableTopics[i] = t

\* C25: the topic of every result of matchTopic, and of every alternative,
\* is either absent or an element of availableTopics in exactly the caller's
\* spelling and letter case.
C25_TopicsAreCallersTopics ==
    Returned =>
        /\ result.value.topic = JSNull
              \/ (result.value.topic.type = "string" /\ IsCallersTopic(result.value.topic.value))
        /\ \A k \in 1..Len(Alternatives) : IsCallersTopic(Alternatives[k].topic)

\* an alias result whose topic the caller spells in another letter case than
\* the alias table
C25_Witness ==
    /\ Returned
    /\ result.value.matchType = "alias"
    /\ result.value.topic.value # lookupAlias(objective).value


-----------------------------------------------------------------------------
(* Properties of the keys of the alias tables *)

\* C26: every key k of the alias table is a normalized phrase and reachable:
\* normalizeForAlias(k) = k and lookupAlias(k) returns the topic mapped to k,
\* for the server table with the server normalizer and for the website table
\* with the website normalizer.
C26_AliasKeysReachable ==
    pc = "keys-done" =>
        /\ normalizeForAlias(objective) = objective
        /\ aliasA = JSString(TOPIC_ALIASES[objective])
        /\ Website_normalizeForAlias(objectiveB) = objectiveB
        /\ aliasB = JSString(Website_TOPIC_ALIASES[objectiveB])


-----------------------------------------------------------------------------
(* Properties of the decision policy per stage *)

\* the keyword overlap score of the topic returned
ReturnedKeywordScore == KeywordScoreOf(result.value.topic.value)

\* C27: shouldUseItemBank(matchTopic(o, T)) is true for every exact result,
\* every alias result and every fuzzy result with best score >= 0.7, is true
\* for a keyword result if and only if its overlap score is >= 0.75, and is
\* false for every fallback fuzzy result (best score in [0.4, 0.7)).
C27_PolicyPerStage ==
    pc = "decided" =>
        /\ result.value.matchType \in {"exact", "alias"} => useItemBank
        /\ (result.value.matchType = "fuzzy" /\ ~NoFuzzyHit) => useItemBank
        /\ (result.value.matchType = "fuzzy" /\ NoFuzzyHit) => ~useItemBank
        /\ result.value.matchType = "keyword" =>
              (useItemBank <=> RatGeq(ReturnedKeywordScore, <<3, 4>>))

\* a keyword result whose overlap score is exactly 0.75, accepted
C27_Witness ==
    /\ pc = "decided"
    /\ result.value.matchType = "keyword"
    /\ ReturnedKeywordScore = <<3, 4>>
    /\ useItemBank

-----------------------------------------------------------------------------
(* The preflight check against mcq_generate *)

\* mcq_generate, called now with the objective of the last match at this
\* difficulty, answers with a curated item
GenerateIsCurated(difficulty) ==
    \A user \in Users :
        McpGenerate(store.mcp,
                    Call([name |-> "mcq_generate", user_id |-> user,
                          objective |-> JSString(objective), difficulty |-> difficulty]),
                    Env("none", <<0, 1>>, FALSE), generationEnabled, result).reply.source
            = "curated"

\* C28: mcq_match_topic reports will_use_item_bank = true if and only if
\* mcq_generate for the same objective, at any difficulty, returns a curated
\* item from the bank.
C28_PreflightAgreesWithGenerate ==
    (call.name = "mcq_match_topic" /\ result.kind = "return") =>
        \A difficulty \in Difficulties :
            reply.mcp.will_use_item_bank <=> GenerateIsCurated(difficulty)

-----------------------------------------------------------------------------
(* The mastery row under interleaved mcq_record calls *)

\* the calls that have returned
ReturnedRecords == {k \in 1..Len(inflight) : inflight[k].at = "returned"}

\* C29: no mastery update is lost: once the mcq_record calls for one
\* (user_id, objective) have all returned, whatever the order of their read and
\* upsert steps, the stored total is the number of calls and the stored correct
\* is the number of calls whose selected answer equals the correct answer
\* case-insensitively.
C29_NoLostMasteryUpdate ==
    (inflight # <<>> /\ ReturnedRecords = 1..Len(inflight)) =>
        LET row == MasteryRow(store.rest, RecordUser, RecordObjective, "none")
        IN /\ row # <<>>
           /\ row[1].total = Len(inflight)
           /\ row[1].correct =
                  Cardinality({k \in 1..Len(inflight) :
                      toUpperCase(inflight[k].args.selected_answer)
                          = toUpperCase(inflight[k].args.correct_answer)})

-----------------------------------------------------------------------------
(* The SSE transports of the HTTP server *)

\* the last request was a POST to /messages
PostedMessage == response.method = "POST" /\ response.url = "/messages"

\* the /sse connections the client has opened
OwnConnections(client) == {i \in 1..Len(connections) : connections[i] = client}

\* C30: a POST to /messages is handled by the SSE transport that was created
\* for the posting client's own /sse connection, also when several clients
\* have opened /sse connections; a POST to /messages before any /sse
\* connection exists is answered with 400.
C30_PostHandledByOwnTransport ==
    PostedMessage =>
        /\ OwnConnections(response.client) # {} =>
               response.handledBy \in OwnConnections(response.client)
        /\ connections = <<>> => response.status = 400

=============================================================================
